---- MODULE Spec2Model ----
(***************************************************************************)
(* A model of git-cleanup's engine:                                        *)
(*   - the output streamer  (src/pkg/streamer/streamer.go): Run, the       *)
(*     OutputStreamer methods and handleCompletion;                        *)
(*   - the retrying executor (src/unnamed/part_000): git and shouldRetry;  *)
(*   - cleanup and the functions it calls, in two of the variants the      *)
(*     source holds: the cleanup with the worktree pool                    *)
(*     (src/scripts/install.sh:424-761), which is the most complete, and   *)
(*     the one before it (src/cleanup.go).                                 *)
(* Go strings are TLA+ strings; Len, SubSeq and \o act on their characters.*)
(***************************************************************************)
EXTENDS Integers, Sequences, FiniteSets, TLC

VARIABLES
    mainPc,        \* position of the goroutine that called Run
    workerPc,      \* position of the goroutine started at streamer.go:106
    streamer,      \* the *OutputStreamer: [spinner, lines]
    tty,           \* everything written to the terminal, in order
    outputChan,    \* buffered content of outputChan
    outputClosed,  \* close(outputChan) has run
    errChan,       \* buffered content of errChan (capacity 1)
    opErr,         \* the error the operation returned
    emitted,       \* history: every line the operation pushed into the sink
    consumed,      \* history: every line the loop passed to addOutput
    branch,        \* history: the select case that observed completion
    gitPc,         \* position inside git(cmd)
    gitCmd,        \* the *exec.Cmd git was given: [Stdout, Dir]
    attempt,       \* loop variable of git
    output,        \* local `output` of git
    err,           \* local `err` of git
    hist,          \* history: the attempts and sleeps of git, in order
    ret,           \* what git returned
    clsErr,        \* the argument of a shouldRetry call
    clsResult,     \* its result
    clsDone,       \* the call has returned
    bvvRows,       \* the branches `git branch -vv` lists, field by field
    bvvOutput,     \* the text `git branch -vv` writes for them
    bvvErr,        \* the error of that command
    gdbRet,        \* what getDeletedBranches or getBranches returned
    gdbDone,       \* it has returned
    dbPc,          \* position inside getDefaultBranch
    dbIdx,         \* index of the method the loop is at
    dbCalls,       \* history: the methods run and what each gave
    dbRet,         \* what getDefaultBranch returned
    cl,            \* the locals of cleanup and its position
    clLog,         \* history: what a run of cleanup did, in order
    rws,           \* the runWithSpinner or streamer.Run call cleanup is in
    abandoned,     \* goroutines of earlier calls, counted by position
    proc,          \* the subprocess of RunCommandStreaming
    pipe,          \* per stream, the lines written and not yet read
    fds,           \* the pipe ends open in the parent
    reader,        \* per stream, the reader goroutine: [pc, line, buf]
    written        \* history: per stream, every line the subprocess wrote

streamerVars == <<mainPc, workerPc, streamer, tty, outputChan, outputClosed,
                  errChan, opErr, emitted, consumed, branch>>
gitVars == <<gitPc, gitCmd, attempt, output, err, hist, ret>>
clsVars == <<clsErr, clsResult, clsDone>>
parseVars == <<bvvRows, bvvOutput, bvvErr, gdbRet, gdbDone>>
defVars == <<dbPc, dbIdx, dbCalls, dbRet>>
\* the state of the components other than the streamer, git and shouldRetry
cleanupVars == <<cl, clLog, rws, abandoned>>
cmdVars == <<proc, pipe, fds, reader, written>>
laterVars == <<parseVars, defVars, cleanupVars, cmdVars>>
\* the state outside getDeletedBranches, outside getDefaultBranch, outside
\* cleanup
notParseVars == <<streamerVars, gitVars, clsVars, defVars, cleanupVars, cmdVars>>
notDefVars == <<streamerVars, gitVars, clsVars, parseVars, cleanupVars, cmdVars>>
notCleanupVars == <<streamerVars, gitVars, clsVars, parseVars, defVars, cmdVars>>
\* the state outside a Run and its RunCommandStreaming
notCmdVars == <<gitVars, clsVars, parseVars, defVars, cleanupVars>>
vars == <<streamerVars, gitVars, clsVars, laterVars>>

----------------------------------------------------------------------------
(* Bounds of the model.                                                    *)

\* the most lines one operation pushes into its sink
MaxEmit == 4
\* the most fragments an error message given to shouldRetry is built from
MaxFrags == 3
\* the most branches `git branch -vv` lists
MaxBranches == 2
\* the most lines a subprocess writes to its two streams together
MaxWrites == 2

----------------------------------------------------------------------------
(* Strings.                                                                *)

\* strings.Index, 1-based; 0 when sub does not occur in s
Index(s, sub) ==
    LET hits == {i \in 1..(Len(s) - Len(sub) + 1) :
                    SubSeq(s, i, i + Len(sub) - 1) = sub}
    IN  IF hits = {} THEN 0 ELSE CHOOSE i \in hits : \A j \in hits : i <= j

\* strings.Contains
Contains(s, sub) == Index(s, sub) > 0

\* strings.Split for a non-empty separator
RECURSIVE Split(_, _)
Split(s, sep) ==
    LET i == Index(s, sep)
    IN  IF i = 0
        THEN <<s>>
        ELSE <<SubSeq(s, 1, i - 1)>> \o Split(SubSeq(s, i + Len(sep), Len(s)), sep)

\* strings.Join
RECURSIVE Join(_, _)
Join(ss, sep) ==
    IF ss = <<>> THEN ""
    ELSE IF Len(ss) = 1 THEN ss[1]
    ELSE ss[1] \o sep \o Join(Tail(ss), sep)

\* strings.HasPrefix
HasPrefix(s, prefix) ==
    Len(s) >= Len(prefix) /\ SubSeq(s, 1, Len(prefix)) = prefix

\* strings.TrimPrefix
TrimPrefix(s, prefix) ==
    IF HasPrefix(s, prefix) THEN SubSeq(s, Len(prefix) + 1, Len(s)) ELSE s

\* unicode.IsSpace on the characters the inputs hold
IsSpace(c) == c \in {" ", "\t", "\n", "\r", "\f"}

\* strings.TrimSpace
TrimSpace(s) ==
    LET keep == {i \in 1..Len(s) : ~IsSpace(SubSeq(s, i, i))}
    IN  IF keep = {} THEN ""
        ELSE SubSeq(s, CHOOSE i \in keep : \A j \in keep : i <= j,
                       CHOOSE i \in keep : \A j \in keep : i >= j)

\* strings.Fields: the maximal runs of non-space characters, in order
RECURSIVE Fields(_)
Fields(s) ==
    LET keep == {i \in 1..Len(s) : ~IsSpace(SubSeq(s, i, i))}
    IN  IF keep = {} THEN <<>>
        ELSE LET first == CHOOSE i \in keep : \A j \in keep : i <= j
                 gaps == {i \in first..Len(s) : IsSpace(SubSeq(s, i, i))}
                 stop == IF gaps = {} THEN Len(s) + 1
                         ELSE CHOOSE i \in gaps : \A j \in gaps : i <= j
             IN  <<SubSeq(s, first, stop - 1)>> \o Fields(SubSeq(s, stop, Len(s)))

\* bufio.Scanner with ScanLines over a string: the lines without their
\* "\n" and one trailing "\r"; no empty line after a final "\n"
ScanLines(s) ==
    LET parts == Split(s, "\n")
        kept == IF parts[Len(parts)] = "" THEN SubSeq(parts, 1, Len(parts) - 1)
                ELSE parts
        dropCR(l) == IF Len(l) > 0 /\ SubSeq(l, Len(l), Len(l)) = "\r"
                     THEN SubSeq(l, 1, Len(l) - 1) ELSE l
    IN  [i \in 1..Len(kept) |-> dropCR(kept[i])]

\* the error interface: nil, or a value whose Error() is msg
Nil == [nil |-> TRUE, msg |-> ""]
NewError(m) == [nil |-> FALSE, msg |-> m]

----------------------------------------------------------------------------
(* The terminal.                                                           *)

\* "✔" and "✖"
PassGlyph == "[U+2714]"
FailGlyph == "[U+2716]"

\* color.RedString, color.BlackString: the text between SGR codes
RedString(s) == "ESC[31m" \o s \o "ESC[0m"
BlackString(s) == "ESC[30m" \o s \o "ESC[0m"

\* fmt.Print("\033[1A\033[K"): cursor up one row, clear it
EraseOp == [op |-> "erase", text |-> ""]
\* fmt.Println(s)
PrintlnOp(s) == [op |-> "println", text |-> s]
\* the final message spinner.Stop() writes
FinalOp(s) == [op |-> "final", text |-> s]

----------------------------------------------------------------------------
(* OutputStreamer. Each method maps [o |-> the streamer, tty |-> the       *)
(* terminal] to the same after the call.                                   *)

maxDisplayLines == 2

\* NewOutputStreamer(title)
NewOutputStreamer(title) ==
    [spinner |-> [active |-> FALSE, Suffix |-> " " \o title, FinalMSG |-> ""],
     lines |-> <<>>]

\* (o *OutputStreamer) start: spinner.Start() on an interactive terminal
start(st) == [st EXCEPT !.o.spinner.active = TRUE]

\* spinner.Stop() of briandowns/spinner: an active spinner is stopped and
\* writes its FinalMSG when it has one
spinnerStop(st) ==
    IF st.o.spinner.active
    THEN [st EXCEPT !.o.spinner.active = FALSE,
                    !.tty = IF st.o.spinner.FinalMSG # ""
                            THEN Append(@, FinalOp(st.o.spinner.FinalMSG))
                            ELSE @]
    ELSE st

\* (o *OutputStreamer) clearOutput that erases the rows and keeps the buffer
clearOutputKeepsBuffer(st) ==
    IF Len(st.o.lines) > 0
    THEN [st EXCEPT !.tty = @ \o [i \in 1..Len(st.o.lines) |-> EraseOp]]
    ELSE st

\* (o *OutputStreamer) clearOutput
clearOutput(st) ==
    IF Len(st.o.lines) > 0
    THEN [st EXCEPT !.tty = @ \o [i \in 1..Len(st.o.lines) |-> EraseOp],
                    !.o.lines = <<>>]
    ELSE st

\* (o *OutputStreamer) updateDisplay with neither the erase nor the cut to
\* maxDisplayLines: the whole buffer is printed again on every update
updateDisplayWholeBuffer(st) ==
    [st EXCEPT !.tty = @ \o [i \in 1..Len(st.o.lines) |-> PrintlnOp(st.o.lines[i])]]

\* (o *OutputStreamer) updateDisplay
updateDisplay(st) ==
    LET c == clearOutput(st)
        n == Len(c.o.lines)
        displayLines == IF n > maxDisplayLines
                        THEN SubSeq(c.o.lines, n - maxDisplayLines + 1, n)
                        ELSE c.o.lines
        shown == SelectSeq(displayLines, LAMBDA l : Len(l) > 0)
    IN  [c EXCEPT !.tty = @ \o [i \in 1..Len(shown) |-> PrintlnOp(shown[i])]]

\* (o *OutputStreamer) addOutput
addOutput(st, line) ==
    IF Len(line) > 0
    THEN updateDisplay([st EXCEPT !.o.lines = Append(@, line)])
    ELSE st

\* (o *OutputStreamer) stop that leaves the spinner running
stopKeepsSpinner(st) == clearOutput(st)

\* (o *OutputStreamer) stop
stop(st) == clearOutput(spinnerStop(st))

\* (o *OutputStreamer) pass
pass(st) ==
    stop([st EXCEPT !.o.spinner.FinalMSG = PassGlyph \o st.o.spinner.Suffix \o "\n"])

\* (o *OutputStreamer) fail that sets the success glyph
failWithPassGlyph(st) ==
    stop([st EXCEPT !.o.spinner.FinalMSG = PassGlyph \o st.o.spinner.Suffix \o "\n"])

\* (o *OutputStreamer) fail
fail(st) ==
    stop([st EXCEPT !.o.spinner.FinalMSG =
                        RedString(FailGlyph \o st.o.spinner.Suffix \o "\n")])

\* handleCompletion that takes the failure branch whatever err is
handleCompletionAlwaysFail(st, e) ==
    LET f == fail(st)
        parts == Split(e.msg, "\n")
    IN  [f EXCEPT !.tty = @ \o [i \in 1..Len(parts) |->
                                    PrintlnOp(BlackString("  " \o parts[i]))]]

\* handleCompletion(streamer, err)
handleCompletion(st, e) ==
    IF ~e.nil
    THEN LET f == fail(st)
             parts == Split(e.msg, "\n")
         IN  [f EXCEPT !.tty = @ \o [i \in 1..Len(parts) |->
                                        PrintlnOp(BlackString("  " \o parts[i]))]]
    ELSE pass(st)

----------------------------------------------------------------------------
(* What the terminal shows.                                                *)

\* the writes made before the spinner's final message
BeforeFinal(t) ==
    LET fs == {i \in 1..Len(t) : t[i].op = "final"}
    IN  IF fs = {} THEN t
        ELSE SubSeq(t, 1, (CHOOSE i \in fs : \A j \in fs : i <= j) - 1)

\* the writes made after the spinner's final message
AfterFinal(t) ==
    LET fs == {i \in 1..Len(t) : t[i].op = "final"}
    IN  IF fs = {} THEN <<>>
        ELSE SubSeq(t, (CHOOSE i \in fs : \A j \in fs : i <= j) + 1, Len(t))

\* the rows drawn below the spinner by a sequence of writes: Println adds a
\* row, an erase removes the last row; an erase with no row left removes a
\* row the streamer never drew, counted in over
RECURSIVE Replay(_, _)
Replay(t, acc) ==
    IF t = <<>> THEN acc
    ELSE LET w == Head(t)
             next == IF w.op = "println"
                        THEN [acc EXCEPT !.rows = Append(@, w.text)]
                     ELSE IF w.op = "erase"
                        THEN IF acc.rows = <<>>
                             THEN [acc EXCEPT !.over = @ + 1]
                             ELSE [acc EXCEPT !.rows = SubSeq(@, 1, Len(@) - 1)]
                     ELSE acc
         IN  Replay(Tail(t), next)

\* the status view: the output lines on the terminal
View == Replay(BeforeFinal(tty), [rows |-> <<>>, over |-> 0]).rows

----------------------------------------------------------------------------
(* Run(title, operation).                                                  *)

\* capacity of outputChan
outputChanCap == 100
\* capacity of errChan
errChanCap == 1

Titles == {"Pulling latest changes"}
\* the lines an operation may push; "" is a line addOutput ignores
Lines == {"", "a", "b"}
\* the errors an operation may return
OpErrors == {Nil, NewError(""), NewError("boom"), NewError("fatal: x\ny"),
             NewError("a\n\nb\n")}

StreamerInit ==
    /\ mainPc = "idle"
    /\ workerPc = "none"
    /\ streamer = NewOutputStreamer("")
    /\ tty = <<>>
    /\ outputChan = <<>>
    /\ outputClosed = FALSE
    /\ errChan = <<>>
    /\ opErr = Nil
    /\ emitted = <<>>
    /\ consumed = <<>>
    /\ branch = "none"

\* Run, lines 98-110: the streamer is made and started, the channels are
\* made, the worker goroutine is started
RunStart ==
    /\ mainPc = "idle"
    /\ \E title \in Titles :
          LET st == start([o |-> NewOutputStreamer(title), tty |-> tty])
          IN  streamer' = st.o /\ tty' = st.tty
    /\ outputChan' = <<>>
    /\ outputClosed' = FALSE
    /\ errChan' = <<>>
    /\ mainPc' = "select"
    /\ workerPc' = "operation"
    /\ UNCHANGED <<opErr, emitted, consumed, branch, gitVars, clsVars, laterVars>>

\* the operation pushes a line into its sink: outputChan <- line
OperationEmit ==
    /\ workerPc = "operation"
    /\ Len(emitted) < MaxEmit
    /\ Len(outputChan) < outputChanCap
    /\ \E line \in Lines :
          /\ outputChan' = Append(outputChan, line)
          /\ emitted' = Append(emitted, line)
    /\ UNCHANGED <<mainPc, workerPc, streamer, tty, outputClosed, errChan, opErr,
                   consumed, branch, gitVars, clsVars, laterVars>>

\* err := operation(outputChan) returns
OperationReturn ==
    /\ workerPc = "operation"
    /\ \E e \in OpErrors : opErr' = e
    /\ workerPc' = "send"
    /\ UNCHANGED <<mainPc, streamer, tty, outputChan, outputClosed, errChan,
                   emitted, consumed, branch, gitVars, clsVars, laterVars>>

\* errChan <- err
SendErr ==
    /\ workerPc = "send"
    /\ Len(errChan) < errChanCap
    /\ errChan' = Append(errChan, opErr)
    /\ workerPc' = "close"
    /\ UNCHANGED <<mainPc, streamer, tty, outputChan, outputClosed, opErr,
                   emitted, consumed, branch, gitVars, clsVars, laterVars>>

\* close(outputChan)
CloseOutput ==
    /\ workerPc = "close"
    /\ outputClosed' = TRUE
    /\ workerPc' = "exit"
    /\ UNCHANGED <<mainPc, streamer, tty, outputChan, errChan, opErr,
                   emitted, consumed, branch, gitVars, clsVars, laterVars>>

\* a loop that never takes a line from outputChan
RecvOutputNever == FALSE /\ UNCHANGED vars

\* select, case output, ok := <-outputChan with ok: streamer.addOutput(output)
RecvOutput ==
    /\ mainPc = "select"
    /\ outputChan # <<>>
    /\ LET st == addOutput([o |-> streamer, tty |-> tty], Head(outputChan))
       IN  streamer' = st.o /\ tty' = st.tty
    /\ consumed' = Append(consumed, Head(outputChan))
    /\ outputChan' = Tail(outputChan)
    /\ UNCHANGED <<mainPc, workerPc, outputClosed, errChan, opErr, emitted,
                   branch, gitVars, clsVars, laterVars>>

\* select, case output, ok := <-outputChan with !ok: err := <-errChan,
\* handleCompletion, return
RecvClosed ==
    /\ mainPc = "select"
    /\ outputChan = <<>>
    /\ outputClosed
    /\ errChan # <<>>
    /\ LET st == handleCompletion([o |-> streamer, tty |-> tty], Head(errChan))
       IN  streamer' = st.o /\ tty' = st.tty
    /\ errChan' = Tail(errChan)
    /\ mainPc' = "done"
    /\ branch' = "closed"
    /\ UNCHANGED <<workerPc, outputChan, outputClosed, opErr, emitted, consumed,
                   gitVars, clsVars, laterVars>>

\* select, case err := <-errChan: handleCompletion, return
RecvErr ==
    /\ mainPc = "select"
    /\ errChan # <<>>
    /\ LET st == handleCompletion([o |-> streamer, tty |-> tty], Head(errChan))
       IN  streamer' = st.o /\ tty' = st.tty
    /\ errChan' = Tail(errChan)
    /\ mainPc' = "done"
    /\ branch' = "errChan"
    /\ UNCHANGED <<workerPc, outputChan, outputClosed, opErr, emitted, consumed,
                   gitVars, clsVars, laterVars>>

----------------------------------------------------------------------------
(* An operation that pushes more lines than outputChan holds: it pushes    *)
(* LongScript times the same line and then returns.                        *)

\* two lines more than the capacity of the channel
LongScript == outputChanCap + 2

\* outputChan <- "a", which blocks while the channel is full
OperationFlood ==
    /\ workerPc = "operation"
    /\ Len(emitted) < LongScript
    /\ Len(outputChan) < outputChanCap
    /\ outputChan' = Append(outputChan, "a")
    /\ emitted' = Append(emitted, "a")
    /\ UNCHANGED <<mainPc, workerPc, streamer, tty, outputClosed, errChan, opErr,
                   consumed, branch, gitVars, clsVars, laterVars>>

\* the operation returns once it has pushed every line
OperationFloodReturn ==
    /\ workerPc = "operation"
    /\ Len(emitted) = LongScript
    /\ \E e \in {Nil, NewError("boom")} : opErr' = e
    /\ workerPc' = "send"
    /\ UNCHANGED <<mainPc, streamer, tty, outputChan, outputClosed, errChan,
                   emitted, consumed, branch, gitVars, clsVars, laterVars>>

----------------------------------------------------------------------------
(* The retrying executor: shouldRetry(err) and git(cmd).                   *)

retryablePatterns ==
    << "cannot lock ref",
       "unable to update local ref",
       "refs/remotes/origin/",
       "is at .* but expected",
       "fatal: unable to access",
       "fatal: the remote end hung up unexpectedly",
       "fatal: early EOF",
       "fatal: index-pack failed",
       "fatal: pack-objects failed" >>

\* shouldRetry(err)
shouldRetry(e) ==
    IF e.nil
    THEN FALSE
    ELSE \E i \in 1..Len(retryablePatterns) : Contains(e.msg, retryablePatterns[i])

maxAttempts == 3
\* time.Sleep(2 * time.Second)
sleepSeconds == 2

\* what a command that ran may have written to its standard output
CmdOutputs == {"", "out1", "out2"}
\* the errors of a command that was started: nil, or an *exec.ExitError,
\* whose Error() is the state of the process and holds nothing of what the
\* command wrote to its standard error
CmdErrors == {Nil, NewError("exit status 1"), NewError("exit status 128"),
              NewError("signal: killed")}
\* the working directories a Cmd may name; "" is the caller's directory
CmdDirs == {"", "/w/gone", "/w/cannot lock ref", "/w/refs/remotes/origin/x",
            "/w/fatal: early EOF"}
\* the error of starting a command whose directory does not exist
ChdirError(dir) == NewError("chdir " \o dir \o ": no such file or directory")
\* the error of Output() on a Cmd whose Stdout is set
StdoutAlreadySet == NewError("exec: Stdout already set")
\* the *exec.Cmd values git may be given
Cmds == [Stdout : BOOLEAN, Dir : CmdDirs]

\* cmd.Output(): the results <<output, err, ran>> it may give for the Cmd c;
\* ran tells whether Output got as far as c.Run(). A Cmd whose Stdout is
\* set is refused at once, and the first call that is not refused sets it.
Output(c) ==
    IF c.Stdout
    THEN {<<"", StdoutAlreadySet, FALSE>>}
    ELSE {<<out, e, TRUE>> : out \in CmdOutputs, e \in CmdErrors}
         \cup (IF c.Dir = "" THEN {} ELSE {<<"", ChdirError(c.Dir), TRUE>>})

AttemptEv(out, e, ran) ==
    [ev |-> "attempt", out |-> out, err |-> e, secs |-> 0, ran |-> ran]
SleepEv(secs) ==
    [ev |-> "sleep", out |-> "", err |-> Nil, secs |-> secs, ran |-> FALSE]

\* the loop condition with an off-by-one
loopCondOneLess(a) == a < maxAttempts

\* for attempt := 1; attempt <= maxAttempts; attempt++
loopCond(a) == a <= maxAttempts

\* the break condition without the shouldRetry test
breaksOnSuccessOnly(e) == e.nil

\* if err == nil || !shouldRetry(err) { break }
breaks(e) == e.nil \/ ~shouldRetry(e)

\* no sleep at all between two attempts
sleepsNever(a) == FALSE

\* if attempt < maxAttempts { time.Sleep(...) }
sleeps(a) == a < maxAttempts

\* `output, err := cmd.Output()`: the loop body declares new variables and
\* the ones git returns keep their value
assignShadowed(outer, result) == outer

\* output, err = cmd.Output(): the variables git returns take the result
assign(outer, result) == result

GitInit ==
    /\ gitPc = "idle"
    /\ gitCmd = [Stdout |-> FALSE, Dir |-> ""]
    /\ attempt = 0
    /\ output = ""
    /\ err = Nil
    /\ hist = <<>>
    /\ ret = <<"", Nil>>

\* git, lines 185-191: the caller's Cmd is taken, the locals are declared,
\* the loop starts at 1
GitCall ==
    /\ gitPc = "idle"
    /\ \E c \in Cmds : gitCmd' = c
    /\ attempt' = 1
    /\ output' = ""
    /\ err' = Nil
    /\ gitPc' = "loop"
    /\ UNCHANGED <<hist, ret, streamerVars, clsVars, laterVars>>

\* one iteration of the loop, lines 191-200: every iteration calls Output()
\* on the same Cmd
GitAttempt ==
    /\ gitPc = "loop"
    /\ loopCond(attempt)
    /\ \E r \in Output(gitCmd) :
          LET out == r[1]
              e == r[2]
              new == assign(<<output, err>>, <<out, e>>)
          IN  /\ output' = new[1]
              /\ err' = new[2]
              /\ gitCmd' = [gitCmd EXCEPT !.Stdout = TRUE]
              /\ IF breaks(e)
                 THEN /\ gitPc' = "break"
                      /\ attempt' = attempt
                      /\ hist' = Append(hist, AttemptEv(out, e, r[3]))
                 ELSE /\ gitPc' = "loop"
                      /\ attempt' = attempt + 1
                      /\ hist' = IF sleeps(attempt)
                                 THEN hist \o <<AttemptEv(out, e, r[3]),
                                                SleepEv(sleepSeconds)>>
                                 ELSE Append(hist, AttemptEv(out, e, r[3]))
    /\ UNCHANGED <<ret, streamerVars, clsVars, laterVars>>

\* return output, err
GitReturn ==
    /\ \/ gitPc = "break"
       \/ gitPc = "loop" /\ ~loopCond(attempt)
    /\ ret' = <<output, err>>
    /\ gitPc' = "returned"
    /\ UNCHANGED <<gitCmd, attempt, output, err, hist, streamerVars, clsVars,
                   laterVars>>

----------------------------------------------------------------------------
(* A call of shouldRetry on its own.                                       *)

\* the pieces error messages are built from
Fragments == {"cannot lock ref", "refs/remotes/origin/", "fatal: early EOF",
              "is at .* but expected", "is at ", " but expected", "abc", ".*",
              "error: "}

RECURSIVE Messages(_)
Messages(n) ==
    IF n = 0 THEN {""}
    ELSE LET shorter == Messages(n - 1)
         IN  shorter \cup {m \o f : m \in shorter, f \in Fragments}

ClsInit ==
    /\ clsErr = Nil
    /\ clsResult = FALSE
    /\ clsDone = FALSE

\* shouldRetry(err) is called and returns
ShouldRetryCall ==
    /\ ~clsDone
    /\ clsResult' = shouldRetry(clsErr)
    /\ clsDone' = TRUE
    /\ UNCHANGED <<clsErr, streamerVars, gitVars, laterVars>>

----------------------------------------------------------------------------
(* getDeletedBranches (src/cleanup.go): the parse of `git branch -vv`.     *)

\* regexp.MustCompile(`origin/.*: gone\]`).MatchString(line): "origin/",
\* then any characters but a newline, then ": gone]"
matchGone(line) ==
    \E i \in 1..(Len(line) - Len("origin/") + 1),
       j \in 1..(Len(line) - Len(": gone]") + 1) :
        /\ SubSeq(line, i, i + Len("origin/") - 1) = "origin/"
        /\ j >= i + Len("origin/")
        /\ SubSeq(line, j, j + Len(": gone]") - 1) = ": gone]"
        /\ ~Contains(SubSeq(line, i, j), "\n")

\* the loop body without the test of the '+' prefix: the second field of
\* every matching line is taken as a worktree branch
classifyLineNoPrefixTest(acc, line) ==
    IF matchGone(line)
    THEN LET parts == Fields(line)
         IN  [branches |-> IF Len(parts) > 0
                           THEN Append(acc.branches, parts[1])
                           ELSE acc.branches,
              worktreeBranches |-> IF Len(parts) >= 2
                                   THEN Append(acc.worktreeBranches, parts[2])
                                   ELSE acc.worktreeBranches]
    ELSE acc

\* the body of the scanner loop, lines 173-184: parts[0] and parts[1] of Go
\* are parts[1] and parts[2] here
classifyLine(acc, line) ==
    IF matchGone(line)
    THEN LET parts == Fields(line)
         IN  [branches |-> IF Len(parts) > 0
                           THEN Append(acc.branches, parts[1])
                           ELSE acc.branches,
              worktreeBranches |-> IF HasPrefix(line, "+") /\ Len(parts) >= 2
                                   THEN Append(acc.worktreeBranches, parts[2])
                                   ELSE acc.worktreeBranches]
    ELSE acc

RECURSIVE classifyLines(_, _)
classifyLines(acc, lines) ==
    IF lines = <<>> THEN acc
    ELSE classifyLines(classifyLine(acc, Head(lines)), Tail(lines))

\* getDeletedBranches, given what cmd.Output() gave for `git branch -vv`
getDeletedBranches(out, e) ==
    IF ~e.nil
    THEN [branches |-> <<>>, worktreeBranches |-> <<>>,
          err |-> NewError("failed to get branch info: " \o e.msg)]
    ELSE LET r == classifyLines([branches |-> <<>>, worktreeBranches |-> <<>>],
                                ScanLines(out))
         IN  [branches |-> r.branches, worktreeBranches |-> r.worktreeBranches,
              err |-> Nil]

\* one branch of the listing: the marker column ("+ " checked out in a
\* worktree, "* " the current branch), the name, the commit, the upstream
\* in brackets when the branch has one, the subject of the commit
Row(prefix, name, pad, sha, tracking, subject) ==
    [prefix |-> prefix, name |-> name, pad |-> pad, sha |-> sha,
     tracking |-> tracking, subject |-> subject]

\* the line `git branch -vv` writes for a branch; for a branch checked out
\* in a worktree git may write the path of the worktree, in parentheses,
\* after the commit
RowText(r) ==
    r.prefix \o r.name \o r.pad \o r.sha \o " "
        \o (IF "path" \in DOMAIN r THEN "(" \o r.path \o ") " ELSE "")
        \o (IF r.tracking = "" THEN "" ELSE r.tracking \o " ") \o r.subject

\* the three lines of the specification's examples
SampleRows ==
    { Row("  ", "feature-x", "  ", "abc123", "[origin/feature-x: gone]", "msg"),
      Row("+ ", "feature-y", "  ", "def456", "[origin/feature-y: gone]", "msg"),
      Row("  ", "main", "       ", "789abc", "[origin/main]", "msg") }

Rows ==
    SampleRows \cup
    { Row(prefix, "topic", " ", "0a1b2c", tracking, subject) :
        prefix \in {"  ", "+ ", "* "},
        tracking \in {"", "[origin/topic]", "[origin/topic: gone]",
                      "[origin/topic: behind 2]"},
        subject \in {"msg", "Fix [upstream: gone] parsing"} }

RECURSIVE RowSeqs(_)
RowSeqs(n) ==
    IF n = 0 THEN {<<>>}
    ELSE LET shorter == RowSeqs(n - 1)
         IN  shorter \cup {Append(rs, r) : rs \in shorter, r \in Rows}

\* the whole output: one line per branch, each ended by a newline
Listing(rows) == Join([i \in 1..Len(rows) |-> RowText(rows[i]) \o "\n"], "")

ParseInit ==
    /\ bvvRows = <<>>
    /\ bvvOutput = ""
    /\ bvvErr = Nil
    /\ gdbRet = [branches |-> <<>>, worktreeBranches |-> <<>>, err |-> Nil]
    /\ gdbDone = FALSE

\* getDeletedBranches is called and returns
GetDeletedBranchesCall ==
    /\ ~gdbDone
    /\ gdbRet' = getDeletedBranches(bvvOutput, bvvErr)
    /\ gdbDone' = TRUE
    /\ UNCHANGED <<bvvRows, bvvOutput, bvvErr, notParseVars>>

----------------------------------------------------------------------------
(* getDefaultBranch (src/cleanup.go).                                      *)

\* the methods with the configured default first
methodsConfigFirst ==
    << <<"config", "--get", "init.defaultBranch">>,
       <<"symbolic-ref", "refs/remotes/origin/HEAD">>,
       <<"rev-parse", "--abbrev-ref", "origin/HEAD">> >>

methods ==
    << <<"symbolic-ref", "refs/remotes/origin/HEAD">>,
       <<"rev-parse", "--abbrev-ref", "origin/HEAD">>,
       <<"config", "--get", "init.defaultBranch">> >>

\* lines 122-126: the output trimmed, then the three prefixes removed in turn
cleanResult(out) ==
    TrimPrefix(TrimPrefix(TrimPrefix(TrimSpace(out), "refs/heads/"),
                          "refs/remotes/"),
               "origin/")

\* the test of line 128 left out: any result is returned
usableAlways(result) == TRUE

\* if result != ""
usable(result) == result # ""

\* what cmd.Output() may give for a method: (stdout, error)
MethodOutputs == {"", "\n", "refs/remotes/origin/main\n", "origin/HEAD\n",
                  "origin/main\n", "main\n", "refs/heads/\n",
                  "refs/remotes/origin/\n", "  develop  \n"}
MethodErrors == {Nil, NewError("exit status 128")}

CallEv(method, out, e) == [method |-> method, out |-> out, err |-> e]

DefInit ==
    /\ dbPc = "idle"
    /\ dbIdx = 0
    /\ dbCalls = <<>>
    /\ dbRet = [name |-> "", err |-> Nil]

\* getDefaultBranch is called: the loop starts at the first method
DefaultBranchCall ==
    /\ dbPc = "idle"
    /\ dbPc' = "loop"
    /\ dbIdx' = 1
    /\ UNCHANGED <<dbCalls, dbRet, notDefVars>>

\* one iteration of the loop over methods, lines 118-132
DefaultBranchMethod ==
    /\ dbPc = "loop"
    /\ dbIdx <= Len(methods)
    /\ \E out \in MethodOutputs, e \in MethodErrors :
          /\ dbCalls' = Append(dbCalls, CallEv(methods[dbIdx], out, e))
          /\ IF e.nil /\ usable(cleanResult(out))
             THEN /\ dbRet' = [name |-> cleanResult(out), err |-> Nil]
                  /\ dbPc' = "returned"
                  /\ dbIdx' = dbIdx
             ELSE /\ dbIdx' = dbIdx + 1
                  /\ UNCHANGED <<dbPc, dbRet>>
    /\ UNCHANGED notDefVars

\* return "", fmt.Errorf("failed to get default branch")
DefaultBranchFail ==
    /\ dbPc = "loop"
    /\ dbIdx > Len(methods)
    /\ dbRet' = [name |-> "", err |-> NewError("failed to get default branch")]
    /\ dbPc' = "returned"
    /\ UNCHANGED <<dbIdx, dbCalls, notDefVars>>

----------------------------------------------------------------------------
(* cleanup (src/cleanup.go) and the runWithSpinner calls it makes          *)
(* (src/unnamed/part_000). The git commands are the environment: what each *)
(* gives is an input of the step that runs it.                             *)

\* getDefaultBranch given what cmd.Output() gave for each method, in order
RECURSIVE getDefaultBranchFrom(_, _)
getDefaultBranchFrom(results, i) ==
    IF i > Len(methods)
    THEN [name |-> "", err |-> NewError("failed to get default branch")]
    ELSE IF results[i].err.nil /\ usable(cleanResult(results[i].out))
         THEN [name |-> cleanResult(results[i].out), err |-> Nil]
         ELSE getDefaultBranchFrom(results, i + 1)

getDefaultBranch(results) == getDefaultBranchFrom(results, 1)

\* getCurrentBranch given what `git branch --show-current` gave
getCurrentBranch(out, e) ==
    IF ~e.nil
    THEN [name |-> "", err |-> NewError("failed to get current branch: " \o e.msg)]
    ELSE [name |-> TrimSpace(out), err |-> Nil]

\* the scanner loop of getWorktreePath, lines 206-216: the last path seen
\* when a "branch " line holds "refs/heads/" + b
RECURSIVE scanWorktrees(_, _, _)
scanWorktrees(lines, worktreePath, b) ==
    IF lines = <<>>
    THEN [worktreePath |-> worktreePath, foundBranch |-> FALSE]
    ELSE LET line == Head(lines)
         IN  IF HasPrefix(line, "worktree ")
             THEN scanWorktrees(Tail(lines), TrimPrefix(line, "worktree "), b)
             ELSE IF HasPrefix(line, "branch ")
                     /\ Contains(line, "refs/heads/" \o b)
                  THEN [worktreePath |-> worktreePath, foundBranch |-> TRUE]
                  ELSE scanWorktrees(Tail(lines), worktreePath, b)

\* getWorktreePath given what `git worktree list --porcelain` gave
getWorktreePath(b, out, e) ==
    IF ~e.nil
    THEN [path |-> "", err |-> NewError("failed to get worktree list: " \o e.msg)]
    ELSE LET r == scanWorktrees(ScanLines(out), "", b)
         IN  IF ~r.foundBranch
             THEN [path |-> "",
                   err |-> NewError("worktree not found for branch " \o b)]
             ELSE [path |-> r.worktreePath, err |-> Nil]

\* strings.Replace(s, old, new, 1) for a non-empty old
ReplaceFirst(s, old, new) ==
    LET i == Index(s, old)
    IN  IF i = 0 THEN s
        ELSE SubSeq(s, 1, i - 1) \o new \o SubSeq(s, i + Len(old), Len(s))

\* filepath.Base for a path without trailing slashes
Base(path) ==
    LET slashes == {i \in 1..Len(path) : SubSeq(path, i, i) = "/"}
    IN  IF path = "" THEN "."
        ELSE IF slashes = {} THEN path
        ELSE SubSeq(path, (CHOOSE i \in slashes : \A j \in slashes : i >= j) + 1,
                    Len(path))

\* the arguments of the git command each operation runs
checkoutBranch(b) == <<"checkout", b>>
pullBranch(b) == <<"pull", "origin", b>>
fetchPrune == <<"fetch", "-p">>
deleteBranch(b) == <<"branch", "-D", b>>
resetWorktree(path) ==
    <<"-C", path, "checkout", "-b", TrimPrefix(Base(path), "web-")>>

\* os.UserHomeDir()
homeDir == "/home/u"

\* runCommand: nil, or the failure with the combined output
RunCommandErrors ==
    {Nil, NewError("command failed: exit status 1\nOutput: fatal: boom\n")}
\* the error of a command run with cmd.Output()
OutputErrors == {Nil, NewError("exit status 128")}

Fails == [out |-> "", err |-> NewError("exit status 128")]
Gives(out) == [out |-> out, err |-> Nil]
\* what the three methods of getDefaultBranch give in a run
DefaultBranchResults ==
    { <<Fails, Fails, Fails>>,
      <<Gives("refs/remotes/origin/main\n"), Fails, Fails>>,
      <<Fails, Fails, Gives("trunk\n")>> }
\* what `git branch --show-current` writes
CurrentBranchOutputs == {"main\n", "feature-x\n"}

\* the listings of `git branch -vv` a run may meet
CleanupListings ==
    { Listing(<<>>),
      Listing(<< Row("  ", "feature-x", "  ", "abc123", "[origin/feature-x: gone]", "msg"),
                 Row("+ ", "feature-y", "  ", "def456", "[origin/feature-y: gone]", "msg"),
                 Row("  ", "main", "       ", "789abc", "[origin/main]", "msg") >>),
      Listing(<< Row("+ ", "feat", " ", "0a1b2c", "[origin/feat: gone]", "msg"),
                 Row("+ ", "feat-2", " ", "3d4e5f", "[origin/feat-2: gone]", "msg"),
                 Row("* ", "main", " ", "789abc", "[origin/main]", "msg") >>) }

\* one entry of `git worktree list --porcelain`
WorktreeEntry(path, sha, b) ==
    "worktree " \o path \o "\nHEAD " \o sha \o "\nbranch refs/heads/" \o b \o "\n\n"

\* the worktree lists a run may meet
WorktreeListings ==
    { WorktreeEntry("/home/u/repo", "789abc", "main"),
      WorktreeEntry("/home/u/repo", "789abc", "main")
          \o WorktreeEntry("/home/u/web-feature-y", "def456", "feature-y"),
      WorktreeEntry("/home/u/repo", "789abc", "main")
          \o WorktreeEntry("/home/u/web-feat-2", "3d4e5f", "feat-2"),
      WorktreeEntry("/home/u/repo", "789abc", "main")
          \o WorktreeEntry("/home/u/web-feat-2", "3d4e5f", "feat-2")
          \o WorktreeEntry("/home/u/web-feat", "0a1b2c", "feat") }

\* the statements of the goroutine runWithSpinner starts, in order:
\* lines 81-83: err := operation(outputChan); errChan <- err; close(outputChan).
\* First the order with the send before the operation has run.
workerStepsSendFirst == <<"send", "operation", "close">>
workerSteps == <<"operation", "send", "close">>

\* the statement after pc, "exit" after the last
stepAfter(pc) ==
    LET i == CHOOSE j \in 1..Len(workerSteps) : workerSteps[j] = pc
    IN  IF i = Len(workerSteps) THEN "exit" ELSE workerSteps[i + 1]

\* an entry of the history of a run: a function called ("call"), what
\* `git worktree list` gave it ("output"), a runWithSpinner started ("run")
\* or returned ("returned"), a git command run by an operation ("git"), a
\* line printed ("print"); n is the index of the list item the loop is at,
\* 0 before the loops
Ev(ev, what, arg, n, e) ==
    [ev |-> ev, what |-> what, arg |-> arg, n |-> n, err |-> e]

\* the index of the item the loop of c.pc is at
itemIndex(c) ==
    IF c.pc \in {"worktree", "reset"} THEN c.wi
    ELSE IF c.pc \in {"branch", "delete"} THEN c.bi
    ELSE 0

\* The continuations of cleanup map k = [cl |-> the locals of cleanup,
\* log |-> the history] to the same after the statements they stand for.
say(k, text) ==
    [k EXCEPT !.log = Append(@, Ev("print", "", text, itemIndex(k.cl), Nil))]
goto(k, pc) == [k EXCEPT !.cl.pc = pc]
\* return e
returns(k, e) == [k EXCEPT !.cl.pc = "returned", !.cl.ret = e]

\* if err != nil { return fmt.Errorf(wrap + "%w", err) }, then the rest
afterSetup(k, e, wrap, onOk) ==
    IF ~e.nil THEN returns(k, NewError(wrap \o e.msg)) ELSE onOk

\* green.Println(s) with green := color.New(color.FgGreen): the text between
\* the SGR codes, and the newline after the code that unsets the colour
GreenPrintln(s) == "ESC[32m" \o s \o "ESC[0m" \o "\n"

\* the head of the loop over deletedBranches, lines 96-108
branchLoop(k) ==
    IF k.cl.bi <= Len(k.cl.deletedBranches)
    THEN goto(k, "branch")
    ELSE returns(say(k, GreenPrintln(PassGlyph \o " Git cleanup completed")), Nil)

\* the head of the loop over deletedWorktreeBranches, lines 74-93
worktreeLoop(k) ==
    IF k.cl.wi <= Len(k.cl.deletedWorktreeBranches)
    THEN goto(k, "worktree")
    ELSE branchLoop(k)

nextWorktree(k) == worktreeLoop([k EXCEPT !.cl.wi = @ + 1])
nextBranch(k) == branchLoop([k EXCEPT !.cl.bi = @ + 1])

\* an item whose failure ends the run with its error
afterItemAbort(k, e, failText, okText, loop) ==
    IF ~e.nil
    THEN returns(say(k, RedString(failText \o e.msg \o "\n")), e)
    ELSE IF loop = "worktree" THEN nextWorktree(say(k, okText))
         ELSE nextBranch(say(k, okText))

\* lines 87-92 and 99-104: the failure printed in red and `continue`, or
\* the success printed; then the next item of the same loop
afterItem(k, e, failText, okText, loop) ==
    LET printed == IF ~e.nil
                   THEN say(k, RedString(failText \o e.msg \o "\n"))
                   ELSE say(k, okText)
    IN  IF loop = "worktree" THEN nextWorktree(printed) ELSE nextBranch(printed)

\* what cleanup does with the error a runWithSpinner call returned
afterRun(k, e) ==
    CASE k.cl.pc = "checkout" ->
            afterSetup(k, e, "error checking out default branch: ",
                       goto(say(k, PassGlyph \o " Checked out default branch: "
                                     \o k.cl.defaultBranch \o "\n"), "pull"))
      [] k.cl.pc = "pull" ->
            afterSetup(k, e, "error pulling latest changes: ",
                       goto(say(k, PassGlyph \o " Pulled latest changes from "
                                     \o k.cl.defaultBranch \o "\n"), "prune"))
      [] k.cl.pc = "prune" ->
            afterSetup(k, e, "error pruning branches: ",
                       goto(say(k, PassGlyph \o " Pruned local branches\n"),
                            "getDeletedBranches"))
      [] k.cl.pc = "reset" ->
            afterItem(k, e,
                      "Error resetting worktree " \o k.cl.relativePath \o ": ",
                      PassGlyph \o " Reset worktree: " \o k.cl.relativePath \o "\n",
                      "worktree")
      [] k.cl.pc = "delete" ->
            afterItem(k, e,
                      "Error deleting branch "
                          \o k.cl.deletedBranches[k.cl.bi] \o ": ",
                      PassGlyph \o " Deleted branch: "
                          \o k.cl.deletedBranches[k.cl.bi] \o "\n",
                      "branch")

CleanupInit ==
    /\ cl = [pc |-> "getDefaultBranch", defaultBranch |-> "",
             currentBranch |-> "", deletedBranches |-> <<>>,
             deletedWorktreeBranches |-> <<>>, wi |-> 1, bi |-> 1,
             worktreePath |-> "", relativePath |-> "", ret |-> Nil]
    /\ clLog = <<>>
    /\ rws = [pc |-> "none", worker |-> "none", errChan |-> <<>>,
              closed |-> FALSE, opErr |-> Nil, step |-> "", title |-> "",
              cmd |-> <<>>, spinners |-> 0]
    /\ abandoned = [operation |-> 0, send |-> 0, close |-> 0]

\* runWithSpinner up to its select: the spinner started, the channels made,
\* the goroutine started
startRun(r, step, title, cmd) ==
    [pc |-> "select", worker |-> workerSteps[1], errChan |-> <<>>,
     closed |-> FALSE, opErr |-> Nil, step |-> step, title |-> title,
     cmd |-> cmd, spinners |-> r.spinners + 1]

\* defaultBranch, err := getDefaultBranch(), lines 28-31
CleanupGetDefaultBranch ==
    /\ cl.pc = "getDefaultBranch"
    /\ \E results \in DefaultBranchResults :
          LET r == getDefaultBranch(results)
              k == [cl |-> [cl EXCEPT !.defaultBranch = r.name],
                    log |-> Append(clLog, Ev("call", "getDefaultBranch", "", 0, r.err))]
              k2 == afterSetup(k, r.err, "failed to get default branch: ",
                               goto(k, "getCurrentBranch"))
          IN  cl' = k2.cl /\ clLog' = k2.log
    /\ UNCHANGED <<rws, abandoned, notCleanupVars>>

\* currentBranch, err := getCurrentBranch() and the test of line 39
CleanupGetCurrentBranch ==
    /\ cl.pc = "getCurrentBranch"
    /\ \E out \in CurrentBranchOutputs, e \in OutputErrors :
          LET r == getCurrentBranch(out, e)
              k == [cl |-> [cl EXCEPT !.currentBranch = r.name],
                    log |-> Append(clLog, Ev("call", "getCurrentBranch", "", 0, r.err))]
              k2 == afterSetup(k, r.err, "failed to get current branch: ",
                               IF r.name # cl.defaultBranch
                               THEN goto(k, "checkout") ELSE goto(k, "pull"))
          IN  cl' = k2.cl /\ clLog' = k2.log
    /\ UNCHANGED <<rws, abandoned, notCleanupVars>>

\* runWithSpinner("Checking out default branch", ...) is called
CleanupCheckout ==
    /\ cl.pc = "checkout"
    /\ rws.pc = "none"
    /\ rws' = startRun(rws, "checkout", "Checking out default branch",
                       checkoutBranch(cl.defaultBranch))
    /\ clLog' = Append(clLog, Ev("run", "checkout", "Checking out default branch", 0, Nil))
    /\ UNCHANGED <<cl, abandoned, notCleanupVars>>

\* runWithSpinner("Pulling latest changes", ...) is called
CleanupPull ==
    /\ cl.pc = "pull"
    /\ rws.pc = "none"
    /\ rws' = startRun(rws, "pull", "Pulling latest changes",
                       pullBranch(cl.defaultBranch))
    /\ clLog' = Append(clLog, Ev("run", "pull", "Pulling latest changes", 0, Nil))
    /\ UNCHANGED <<cl, abandoned, notCleanupVars>>

\* runWithSpinner("Pruning local branches", ...) is called
CleanupPrune ==
    /\ cl.pc = "prune"
    /\ rws.pc = "none"
    /\ rws' = startRun(rws, "prune", "Pruning local branches", fetchPrune)
    /\ clLog' = Append(clLog, Ev("run", "prune", "Pruning local branches", 0, Nil))
    /\ UNCHANGED <<cl, abandoned, notCleanupVars>>

\* deletedBranches, deletedWorktreeBranches, err := getDeletedBranches(),
\* lines 68-71, and the entry into the loops
CleanupGetDeletedBranches ==
    /\ cl.pc = "getDeletedBranches"
    /\ \E out \in CleanupListings, e \in OutputErrors :
          LET r == getDeletedBranches(out, e)
              k == [cl |-> [cl EXCEPT !.deletedBranches = r.branches,
                                      !.deletedWorktreeBranches = r.worktreeBranches],
                    log |-> Append(clLog, Ev("call", "getDeletedBranches", "", 0, r.err))]
              k2 == afterSetup(k, r.err, "error getting deleted branches: ",
                               worktreeLoop(k))
          IN  cl' = k2.cl /\ clLog' = k2.log
    /\ UNCHANGED <<rws, abandoned, notCleanupVars>>

\* one iteration of the worktree loop up to its runWithSpinner, lines 74-85:
\* getWorktreePath; on its error the message and `continue`
CleanupWorktree ==
    /\ cl.pc = "worktree"
    /\ rws.pc = "none"
    /\ \E out \in WorktreeListings, e \in OutputErrors :
          LET b == cl.deletedWorktreeBranches[cl.wi]
              r == getWorktreePath(b, out, e)
              relativePath == ReplaceFirst(r.path, homeDir, "~")
              title == "Resetting worktree: " \o relativePath
              k == [cl |-> cl,
                    log |-> clLog \o
                            << Ev("output", "worktree list --porcelain", out, cl.wi, e),
                               Ev("call", "getWorktreePath", b, cl.wi, r.err) >>]
          IN  IF ~r.err.nil
              THEN LET k2 == nextWorktree(say(k, RedString(
                                 "Error finding worktree for branch " \o b
                                     \o ": " \o r.err.msg \o "\n")))
                   IN  cl' = k2.cl /\ clLog' = k2.log /\ rws' = rws
              ELSE /\ cl' = [cl EXCEPT !.pc = "reset", !.worktreePath = r.path,
                                       !.relativePath = relativePath]
                   /\ clLog' = Append(k.log, Ev("run", "reset", title, cl.wi, Nil))
                   /\ rws' = startRun(rws, "reset", title, resetWorktree(r.path))
    /\ UNCHANGED <<abandoned, notCleanupVars>>

\* one iteration of the branch loop up to its runWithSpinner, lines 96-99
CleanupBranch ==
    /\ cl.pc = "branch"
    /\ rws.pc = "none"
    /\ LET b == cl.deletedBranches[cl.bi]
           title == "Deleting branch: " \o b
       IN  /\ cl' = [cl EXCEPT !.pc = "delete"]
           /\ clLog' = Append(clLog, Ev("run", "delete", title, cl.bi, Nil))
           /\ rws' = startRun(rws, "delete", title, deleteBranch(b))
    /\ UNCHANGED <<abandoned, notCleanupVars>>

\* the goroutines of runWithSpinner calls: the one of the call cleanup is
\* in, and those of earlier calls that have not exited
WorkerHandles == {"current", "abandoned"}

\* an abandoned goroutine at pc runs its statement
moveAbandoned(pc) ==
    IF stepAfter(pc) = "exit"
    THEN [abandoned EXCEPT ![pc] = @ - 1]
    ELSE [abandoned EXCEPT ![pc] = @ - 1, ![stepAfter(pc)] = @ + 1]

\* err := operation(outputChan): runCommand runs the git command and returns
WorkerOperation ==
    /\ \E h \in WorkerHandles, e \in RunCommandErrors :
          IF h = "current"
          THEN /\ rws.worker = "operation"
               /\ rws' = [rws EXCEPT !.worker = stepAfter("operation"), !.opErr = e]
               /\ clLog' = Append(clLog, Ev("git", rws.step, Join(rws.cmd, " "),
                                            itemIndex(cl), e))
               /\ UNCHANGED abandoned
          ELSE /\ abandoned.operation > 0
               /\ abandoned' = moveAbandoned("operation")
               /\ UNCHANGED <<rws, clLog>>
    /\ UNCHANGED <<cl, notCleanupVars>>

\* errChan <- err
WorkerSendErr ==
    /\ \E h \in WorkerHandles :
          IF h = "current"
          THEN /\ rws.worker = "send"
               /\ Len(rws.errChan) < errChanCap
               /\ rws' = [rws EXCEPT !.worker = stepAfter("send"),
                                     !.errChan = Append(@, rws.opErr)]
               /\ UNCHANGED abandoned
          ELSE /\ abandoned.send > 0
               /\ abandoned' = moveAbandoned("send")
               /\ UNCHANGED rws
    /\ UNCHANGED <<cl, clLog, notCleanupVars>>

\* close(outputChan)
WorkerClose ==
    /\ \E h \in WorkerHandles :
          IF h = "current"
          THEN /\ rws.worker = "close"
               /\ rws' = [rws EXCEPT !.worker = stepAfter("close"), !.closed = TRUE]
               /\ UNCHANGED abandoned
          ELSE /\ abandoned.close > 0
               /\ abandoned' = moveAbandoned("close")
               /\ UNCHANGED rws
    /\ UNCHANGED <<cl, clLog, notCleanupVars>>

\* streamer.stop() and `return err` of runWithSpinner, then cleanup up to its
\* next call: the goroutine is left where it is
Returned(e) ==
    /\ rws' = [rws EXCEPT !.pc = "none", !.worker = "none", !.errChan = Tail(@),
                          !.spinners = @ - 1]
    /\ abandoned' = IF rws.worker = "exit" THEN abandoned
                    ELSE [abandoned EXCEPT ![rws.worker] = @ + 1]
    /\ LET k == afterRun([cl |-> cl,
                          log |-> Append(clLog, Ev("returned", rws.step, rws.title,
                                                   itemIndex(cl), e))], e)
       IN  cl' = k.cl /\ clLog' = k.log

\* select, case output, ok := <-outputChan with !ok: return <-errChan
RwsRecvClosed ==
    /\ rws.pc = "select"
    /\ rws.closed
    /\ rws.errChan # <<>>
    /\ Returned(Head(rws.errChan))
    /\ UNCHANGED notCleanupVars

\* select, case err := <-errChan: return err
RwsRecvErr ==
    /\ rws.pc = "select"
    /\ rws.errChan # <<>>
    /\ Returned(Head(rws.errChan))
    /\ UNCHANGED notCleanupVars

----------------------------------------------------------------------------
(* RunCommandStreaming (src/pkg/streamer/streamer.go) as the operation of  *)
(* a Run: the subprocess, its two pipes, the two reader goroutines and     *)
(* cmd.Wait(). Pipes carry whole lines.                                    *)

Streams == {"stdout", "stderr"}
\* the end of a pipe the parent reads from, the end it hands to the child
ReadEnd(s) == s \o ".r"
WriteEnd(s) == s \o ".w"

\* the errors of os.Pipe and of cmd.Start
PipeError == NewError("pipe: too many open files")
StartError == NewError("fork/exec /usr/bin/git: resource temporarily unavailable")
\* the errors cmd.Wait returns for the exit status
ExitErrors == {Nil, NewError("exit status 1")}

\* a reader goroutine: its position, the line it holds, and the lines its
\* scanner has read from the pipe and not yet given
Reader(pc, line, buf) == [pc |-> pc, line |-> line, buf |-> buf]

CmdInit ==
    /\ proc = [pc |-> "none", status |-> Nil]
    /\ pipe = [s \in Streams |-> <<>>]
    /\ fds = {}
    /\ reader = [s \in Streams |-> Reader("none", "", <<>>)]
    /\ written = [s \in Streams |-> <<>>]

\* RunCommandStreaming up to its call of cmd.Wait, lines 141-175: the two
\* pipes, cmd.Start, the two reader goroutines; an error of one of the
\* three calls is returned at once. StdoutPipe and StderrPipe leave both
\* ends of their pipe open in the parent; a successful Start closes the
\* ends given to the child, a failed Start closes all four.
StreamBegin ==
    /\ workerPc = "operation"
    /\ proc.pc = "none"
    /\ fds = {}
    /\ \E outcome \in {"StdoutPipe fails", "StderrPipe fails", "Start fails",
                       "started"} :
          CASE outcome = "StdoutPipe fails" ->
                  /\ opErr' = PipeError
                  /\ workerPc' = "send"
                  /\ proc' = [proc EXCEPT !.pc = "unstarted"]
                  /\ UNCHANGED <<fds, reader>>
            [] outcome = "StderrPipe fails" ->
                  /\ opErr' = PipeError
                  /\ workerPc' = "send"
                  /\ proc' = [proc EXCEPT !.pc = "unstarted"]
                  /\ fds' = {ReadEnd("stdout"), WriteEnd("stdout")}
                  /\ UNCHANGED reader
            [] outcome = "Start fails" ->
                  /\ opErr' = StartError
                  /\ workerPc' = "send"
                  /\ proc' = [proc EXCEPT !.pc = "unstarted"]
                  /\ UNCHANGED <<fds, reader>>
            [] outcome = "started" ->
                  /\ proc' = [proc EXCEPT !.pc = "running"]
                  /\ fds' = {ReadEnd(s) : s \in Streams}
                  /\ reader' = [s \in Streams |-> Reader("scan", "", <<>>)]
                  /\ UNCHANGED <<opErr, workerPc>>
    /\ UNCHANGED <<mainPc, streamer, tty, outputChan, outputClosed, errChan,
                   emitted, consumed, branch, pipe, written, notCmdVars>>

\* the subprocess writes a line to one of its streams
ProcWrite ==
    /\ proc.pc = "running"
    /\ Len(written["stdout"]) + Len(written["stderr"]) < MaxWrites
    /\ \E s \in Streams, line \in Lines :
          /\ pipe' = [pipe EXCEPT ![s] = Append(@, line)]
          /\ written' = [written EXCEPT ![s] = Append(@, line)]
    /\ UNCHANGED <<streamerVars, proc, fds, reader, notCmdVars>>

\* the subprocess exits
ProcExit ==
    /\ proc.pc = "running"
    /\ \E status \in ExitErrors : proc' = [pc |-> "exited", status |-> status]
    /\ UNCHANGED <<streamerVars, pipe, fds, reader, written, notCmdVars>>

\* scanner.Scan() of a reader goroutine. The scanner gives the next line
\* it holds in its buffer, without touching the pipe; when it holds none it
\* reads the pipe, and one read takes every line the pipe holds. Scan gives
\* false, which ends the goroutine, at the end of the stream and when the
\* read fails because cmd.Wait has closed the pipe. An empty line is skipped.
ReaderScan ==
    /\ \E s \in Streams :
          /\ reader[s].pc = "scan"
          /\ IF reader[s].buf # <<>>
             THEN /\ reader' = [reader EXCEPT ![s] =
                                   IF Len(Head(reader[s].buf)) > 0
                                   THEN Reader("send", Head(reader[s].buf),
                                               Tail(reader[s].buf))
                                   ELSE Reader("scan", "", Tail(reader[s].buf))]
                  /\ UNCHANGED pipe
             ELSE IF ReadEnd(s) \notin fds
             THEN /\ reader' = [reader EXCEPT ![s] = Reader("done", "", <<>>)]
                  /\ UNCHANGED pipe
             ELSE IF pipe[s] # <<>>
             THEN /\ pipe' = [pipe EXCEPT ![s] = <<>>]
                  /\ reader' = [reader EXCEPT ![s] =
                                   IF Len(Head(pipe[s])) > 0
                                   THEN Reader("send", Head(pipe[s]), Tail(pipe[s]))
                                   ELSE Reader("scan", "", Tail(pipe[s]))]
             ELSE /\ proc.pc = "exited"
                  /\ reader' = [reader EXCEPT ![s] = Reader("done", "", <<>>)]
                  /\ UNCHANGED pipe
    /\ UNCHANGED <<streamerVars, proc, fds, written, notCmdVars>>

\* outputChan <- line of a reader goroutine; a send on the closed channel
\* panics, which ends the program
ReaderSend ==
    /\ \E s \in Streams :
          /\ reader[s].pc = "send"
          /\ IF outputClosed
             THEN /\ mainPc' = "crashed"
                  /\ workerPc' = "crashed"
                  /\ reader' = [t \in Streams |-> Reader("crashed", "", <<>>)]
                  /\ UNCHANGED <<outputChan, emitted>>
             ELSE /\ Len(outputChan) < outputChanCap
                  /\ outputChan' = Append(outputChan, reader[s].line)
                  /\ emitted' = Append(emitted, reader[s].line)
                  /\ reader' = [reader EXCEPT ![s] =
                                   Reader("scan", "", reader[s].buf)]
                  /\ UNCHANGED <<mainPc, workerPc>>
    /\ UNCHANGED <<streamer, tty, outputClosed, errChan, opErr, consumed, branch,
                   proc, pipe, fds, written, notCmdVars>>

\* return cmd.Wait(): once the subprocess has exited, Wait closes the
\* parent's ends of the pipes and returns the exit status
WaitReturn ==
    /\ workerPc = "operation"
    /\ proc.pc = "exited"
    /\ fds' = {}
    /\ opErr' = proc.status
    /\ workerPc' = "send"
    /\ proc' = [proc EXCEPT !.pc = "waited"]
    /\ UNCHANGED <<mainPc, streamer, tty, outputChan, outputClosed, errChan,
                   emitted, consumed, branch, pipe, reader, written, notCmdVars>>

----------------------------------------------------------------------------
(* getBranches (src/scripts/install.sh:608-650): the parse of              *)
(* `git branch -vv` in the cleanup that rebases the worktree pool.         *)

\* the result of getBranches before any line was read
NoBranches ==
    [DeletedBranches |-> <<>>, WorktreeBranches |-> <<>>,
     WorktreePoolBranches |-> <<>>, err |-> Nil, panic |-> FALSE]

\* a '+' line whose upstream is gone recorded under its first field
branchLineFirstField(acc, line) ==
    IF matchGone(line)
    THEN LET parts == Fields(line)
         IN  IF HasPrefix(line, "+") /\ Len(parts) >= 2
             THEN [acc EXCEPT !.WorktreeBranches = Append(@, parts[2]),
                              !.DeletedBranches = Append(@, parts[1])]
             ELSE IF Len(parts) > 0
             THEN [acc EXCEPT !.DeletedBranches = Append(@, parts[1])]
             ELSE acc
    ELSE acc

\* the body of the scanner loop, lines 627-646: parts[0], parts[1] and
\* parts[3] of Go are parts[1], parts[2] and parts[4] here. On a '+' line
\* whose upstream is not gone an index or the slice of lines 640-641 out of
\* range is a panic; path is the fourth field without its first and last
\* character
branchLine(acc, line) ==
    IF matchGone(line)
    THEN LET parts == Fields(line)
         IN  IF HasPrefix(line, "+") /\ Len(parts) >= 2
             THEN [acc EXCEPT !.WorktreeBranches = Append(@, parts[2]),
                              !.DeletedBranches = Append(@, parts[2])]
             ELSE IF Len(parts) > 0
             THEN [acc EXCEPT !.DeletedBranches = Append(@, parts[1])]
             ELSE acc
    ELSE IF HasPrefix(line, "+")
    THEN LET parts == Fields(line)
             path == SubSeq(parts[4], 2, Len(parts[4]) - 1)
         IN  IF Len(parts) < 4 \/ Len(parts[4]) < 2
             THEN [acc EXCEPT !.panic = TRUE]
             ELSE IF TrimPrefix(Base(path), "web-") = parts[2]
             THEN [acc EXCEPT !.WorktreePoolBranches = Append(@, parts[2])]
             ELSE acc
    ELSE acc

\* the scanner loop; a panic ends it
RECURSIVE branchLines(_, _)
branchLines(acc, lines) ==
    IF lines = <<>> \/ acc.panic THEN acc
    ELSE branchLines(branchLine(acc, Head(lines)), Tail(lines))

\* getBranches, given what cmd.Output() gave for `git branch -vv`
getBranches(out, e) ==
    IF ~e.nil
    THEN [NoBranches EXCEPT !.err = NewError("failed to get branch info: " \o e.msg)]
    ELSE branchLines(NoBranches, ScanLines(out))

\* a branch checked out in the worktree at path, as git lists it
WorktreeRow(name, sha, path, tracking, subject) ==
    [prefix |-> "+ ", name |-> name, pad |-> " ", sha |-> sha, path |-> path,
     tracking |-> tracking, subject |-> subject]

\* the branches a listing may hold: the lines of the examples, plain and
\* current branches, and branches in worktrees with and without the path
BranchRows ==
    SampleRows \cup
    { Row(prefix, "topic", " ", "0a1b2c", tracking, "msg") :
        prefix \in {"  ", "* "},
        tracking \in {"", "[origin/topic]", "[origin/topic: gone]"} } \cup
    { WorktreeRow("feat", "3d4e5f", path, tracking, "msg") :
        path \in {"/home/u/web-feat", "/home/u/elsewhere"},
        tracking \in {"", "[origin/feat]", "[origin/feat: gone]"} } \cup
    { Row("+ ", "bare", " ", "777aaa", "", "") }

RECURSIVE RowSeqsOf(_, _)
RowSeqsOf(rows, n) ==
    IF n = 0 THEN {<<>>}
    ELSE LET shorter == RowSeqsOf(rows, n - 1)
         IN  shorter \cup {Append(rs, r) : rs \in shorter, r \in rows}

\* getBranches is called; it returns, or the program ends in a panic
GetBranchesCall ==
    /\ ~gdbDone
    /\ gdbRet' = getBranches(bvvOutput, bvvErr)
    /\ gdbDone' = TRUE
    /\ UNCHANGED <<bvvRows, bvvOutput, bvvErr, notParseVars>>

----------------------------------------------------------------------------
(* cleanup with the worktree pool (src/scripts/install.sh:450-535) and the *)
(* streamer.Run calls it makes (src/pkg/streamer/streamer.go:97-129). Run  *)
(* returns nothing: what the operation returned is rendered by             *)
(* handleCompletion and cleanup does not see it. The git commands are the  *)
(* environment: what each gives is an input of the step that runs it.      *)

\* what cmd.Output() and cmd.CombinedOutput() give: the text and the error
CmdResult(out, e) == [out |-> out, err |-> e]

\* RunCommand, streamer.go:131-138, given what cmd.CombinedOutput() gave
RunCommand(r) == IF ~r.err.nil THEN NewError(TrimSpace(r.out)) ELSE Nil

\* what cmd.CombinedOutput() gives for a git command
CombinedOutputs ==
    { CmdResult("", Nil), CmdResult("fatal: boom\n", NewError("exit status 1")) }

\* getGitDir, lines 537-556, given what cmd.Output() gave
getGitDir(r) ==
    IF ~r.err.nil THEN ""
    ELSE LET dirs == Split(r.out, "\n")
         IN  IF Len(dirs) < 3 THEN ""
             ELSE IF dirs[1] = dirs[2] THEN dirs[3]
             ELSE dirs[1]

\* what `git rev-parse --git-common-dir --git-dir --absolute-git-dir` gives:
\* outside a repository, in the main repository, in a worktree
GitDirResults ==
    { CmdResult("", NewError("exit status 128")),
      CmdResult(".git\n.git\n/home/u/repo/.git\n", Nil),
      CmdResult("/home/u/repo/.git\n/home/u/repo/.git/worktrees/web-feat\n"
                    \o "/home/u/repo/.git/worktrees/web-feat\n", Nil) }

\* a git command an operation ran and the error RunCommand or Output gave
Ran(args, e) == [args |-> args, err |-> e]

\* where the operation of a streamer.Run call is when the goroutine starts
\* it: the statement it is at and its locals. resetWorktree begins with
\* show-ref, the operation of the pool with the head of its loop, the others
\* run one command
operationEntry(step) ==
    [pc |-> CASE step = "reset" -> "show-ref"
              [] step = "rebasePool" -> "loop"
              [] OTHER -> "command",
     worktreePath |-> "", isDirty |-> FALSE, err |-> Nil, unstashErr |-> Nil]

\* one command of resetWorktree(defaultBranch, worktreePath, outputChan),
\* lines 687-705, and of rebaseWorktree, lines 707-710: the command at pc
\* given what it gives, the statement that follows it, and the error
\* returned when that is the return
resetWorktreeOnto(pc, defaultBranch, worktreePath, r) ==
    LET worktreeBranch == TrimPrefix(Base(worktreePath), "web-")
        e == RunCommand(r)
    IN  CASE pc = "show-ref" ->
               [cmd |-> Ran(<<"show-ref", "--verify", "--quiet",
                              "refs/heads/" \o worktreeBranch>>, e),
                pc |-> IF e.nil THEN "rebase" ELSE "checkout -b", err |-> Nil]
          [] pc = "rebase" ->
               [cmd |-> Ran(<<"-C", worktreePath, "rebase", defaultBranch,
                              worktreeBranch>>, e),
                pc |-> IF e.nil THEN "checkout" ELSE "return", err |-> e]
          [] pc = "checkout" ->
               [cmd |-> Ran(<<"-C", worktreePath, "checkout", worktreeBranch>>, e),
                pc |-> "return", err |-> e]
          [] pc = "checkout -b" ->
               [cmd |-> Ran(<<"-C", worktreePath, "checkout", "-b", worktreeBranch>>, e),
                pc |-> "return", err |-> e]

\* what the command of a statement of rebaseWorktreePoolBranch gives:
\* `status --porcelain` through Output (a clean worktree, a dirty one, a
\* failure), `stash push`, `rebase` and `stash pop` through RunCommand; a
\* statement that sends a line runs no command
PoolCommandResults(pc) ==
    CASE pc = "status" ->
           { CmdResult("", Nil), CmdResult(" M file.txt\n", Nil),
             CmdResult("", NewError("exit status 128")) }
      [] pc \in {"stash", "rebase", "pop"} -> CombinedOutputs
      [] OTHER -> { CmdResult("", Nil) }

\* one statement of rebaseWorktreePoolBranch(worktreePath, branch,
\* defaultBranch, outputChan), lines 712-761, with op the statement it is at
\* and its locals and r what the command of the statement gives: the locals
\* and the statement after it, the line sent on outputChan, the command
\* run, and whether the function returned and with what error
rebaseWorktreePoolBranch(op, b, defaultBranch, r) ==
    LET at(pc) == [op |-> [op EXCEPT !.pc = pc], lines |-> <<>>, cmds |-> <<>>,
                   returned |-> FALSE, err |-> Nil]
        return(e) == [at("return") EXCEPT !.returned = TRUE, !.err = e]
        sent(s, line) == [s EXCEPT !.lines = <<line>>]
        ran(s, args, e) == [s EXCEPT !.cmds = <<Ran(args, e)>>]
        e == RunCommand(r)
    IN  CASE op.pc = "status" ->
               LET isDirty == Len(TrimSpace(r.out)) > 0
                   args == <<"-C", op.worktreePath, "status", "--porcelain">>
               IN  IF ~r.err.nil THEN ran(return(r.err), args, r.err)
                   ELSE ran([at(IF isDirty THEN "sayDirty" ELSE "sayRebasing")
                                EXCEPT !.op.isDirty = isDirty], args, r.err)
          [] op.pc = "sayDirty" ->
               sent(at("stash"), "Worktree is dirty, stashing changes...")
          [] op.pc = "stash" ->
               LET args == <<"-C", op.worktreePath, "stash", "push", "-m",
                             "Auto-stash before rebase " \o b \o " onto "
                                 \o defaultBranch>>
               IN  IF ~e.nil THEN ran(return(e), args, e)
                   ELSE ran(at("sayStashed"), args, e)
          [] op.pc = "sayStashed" -> sent(at("sayRebasing"), "Stashed changes")
          [] op.pc = "sayRebasing" ->
               sent(at("rebase"),
                    "Rebasing " \o b \o " onto " \o defaultBranch \o "...")
          [] op.pc = "rebase" ->
               LET args == <<"-C", op.worktreePath, "rebase", defaultBranch, b>>
               IN  IF op.isDirty
                   THEN ran([at("sayRestoring") EXCEPT !.op.err = e], args, e)
                   ELSE ran(return(e), args, e)
          [] op.pc = "sayRestoring" ->
               sent(at("pop"),
                    IF ~op.err.nil
                    THEN "Rebase failed, restoring stashed changes..."
                    ELSE "Rebase successful, restoring stashed changes...")
          [] op.pc = "pop" ->
               LET args == <<"-C", op.worktreePath, "stash", "pop">>
               IN  IF ~e.nil
                   THEN ran([at("sayWarning") EXCEPT !.op.unstashErr = e], args, e)
                   ELSE ran(return(op.err), args, e)
          [] op.pc = "sayWarning" ->
               sent(return(op.err),
                    "Warning: failed to restore stashed changes: "
                        \o op.unstashErr.msg)

\* the listings of `git branch -vv` a run may meet: no branch; the lines of
\* the examples; a gone branch in a worktree, a branch of the pool and the
\* current branch; a line that makes getBranches panic
PoolListings ==
    { Listing(<<>>),
      Listing(<< Row("  ", "feature-x", "  ", "abc123", "[origin/feature-x: gone]", "msg"),
                 Row("+ ", "feature-y", "  ", "def456", "[origin/feature-y: gone]", "msg"),
                 Row("  ", "main", "       ", "789abc", "[origin/main]", "msg") >>),
      Listing(<< WorktreeRow("feat-2", "3d4e5f", "/home/u/web-feat-2",
                             "[origin/feat-2: gone]", "msg"),
                 WorktreeRow("feat", "0a1b2c", "/home/u/web-feat",
                             "[origin/feat]", "msg"),
                 Row("* ", "main", " ", "789abc", "[origin/main]", "msg") >>),
      Listing(<< Row("+ ", "bare", " ", "777aaa", "", "") >>) }

\* the worktree lists a run may meet: the main worktree alone, and with the
\* worktrees of feat-2 and feat, and with the worktree of feature-y
PoolWorktreeListings ==
    { WorktreeEntry("/home/u/repo", "789abc", "main"),
      WorktreeEntry("/home/u/repo", "789abc", "main")
          \o WorktreeEntry("/home/u/web-feat-2", "3d4e5f", "feat-2")
          \o WorktreeEntry("/home/u/web-feat", "0a1b2c", "feat"),
      WorktreeEntry("/home/u/repo", "789abc", "main")
          \o WorktreeEntry("/home/u/web-feature-y", "def456", "feature-y") }

\* what the three methods of getDefaultBranch give in a run
PoolDefaultBranchResults ==
    { <<Fails, Fails, Fails>>,
      <<Gives("refs/remotes/origin/main\n"), Fails, Fails>> }

\* Run up to its select, lines 98-110: the streamer made and started, the
\* channels made, the goroutine started
streamerRun(step, title) ==
    [pc |-> "select", worker |-> "operation", errChan |-> <<>>,
     outputChan |-> <<>>, closed |-> FALSE, opErr |-> Nil, step |-> step,
     title |-> title, pi |-> 1, op |-> operationEntry(step)]

\* the head of the block that rebases the pool, lines 514-531, and the end
\* of cleanup, lines 533-534
poolBlock(k) ==
    IF Len(k.cl.branches.WorktreePoolBranches) > 0
    THEN goto(k, "pool")
    ELSE returns(say(k, GreenPrintln(PassGlyph \o " Git cleanup completed")), Nil)

\* the head of the loop over branches.DeletedBranches, lines 507-511
deletedLoop(k) ==
    IF k.cl.bi <= Len(k.cl.branches.DeletedBranches)
    THEN goto(k, "branch")
    ELSE poolBlock(k)

\* the head of the loop over branches.WorktreeBranches, lines 491-504
worktreesLoop(k) ==
    IF k.cl.wi <= Len(k.cl.branches.WorktreeBranches)
    THEN goto(k, "worktree")
    ELSE deletedLoop(k)

\* what cleanup does when a streamer.Run call has returned: the next
\* statement, whatever the operation gave
afterStreamerRun(k) ==
    CASE k.cl.pc = "checkout" -> goto(k, "pull")
      [] k.cl.pc = "pull" -> goto(k, "prune")
      [] k.cl.pc = "prune" -> goto(k, "getBranches")
      [] k.cl.pc = "reset" -> worktreesLoop([k EXCEPT !.cl.wi = @ + 1])
      [] k.cl.pc = "delete" -> deletedLoop([k EXCEPT !.cl.bi = @ + 1])
      [] k.cl.pc = "rebasePool" ->
            returns(say(k, GreenPrintln(PassGlyph \o " Git cleanup completed")), Nil)

PoolCleanupInit ==
    /\ cl = [pc |-> "getGitDir", gitDir |-> "", defaultBranch |-> "",
             currentBranch |-> "", branches |-> NoBranches, wi |-> 1, bi |-> 1,
             worktreePath |-> "", relativePath |-> "", ret |-> Nil]
    /\ clLog = <<>>
    /\ rws = [pc |-> "none", worker |-> "none", errChan |-> <<>>,
              outputChan |-> <<>>, closed |-> FALSE, opErr |-> Nil,
              step |-> "", title |-> "", pi |-> 1, op |-> operationEntry("")]
    /\ abandoned = [operation |-> 0, send |-> 0, close |-> 0]

\* gitDir = getGitDir(), line 454
PoolGetGitDir ==
    /\ cl.pc = "getGitDir"
    /\ \E r \in GitDirResults :
          /\ cl' = [cl EXCEPT !.gitDir = getGitDir(r), !.pc = "getDefaultBranch"]
          /\ clLog' = Append(clLog, Ev("call", "getGitDir", getGitDir(r), 0, Nil))
    /\ UNCHANGED <<rws, abandoned, notCleanupVars>>

\* defaultBranch, err := getDefaultBranch(), lines 457-460
PoolGetDefaultBranch ==
    /\ cl.pc = "getDefaultBranch"
    /\ \E results \in PoolDefaultBranchResults :
          LET r == getDefaultBranch(results)
              k == [cl |-> [cl EXCEPT !.defaultBranch = r.name],
                    log |-> Append(clLog, Ev("call", "getDefaultBranch", "", 0, r.err))]
              k2 == IF ~r.err.nil
                    THEN returns(k, NewError("failed to get default branch: "
                                                 \o r.err.msg))
                    ELSE goto(k, "getCurrentBranch")
          IN  cl' = k2.cl /\ clLog' = k2.log
    /\ UNCHANGED <<rws, abandoned, notCleanupVars>>

\* currentBranch, err := getCurrentBranch() and the test of line 468
PoolGetCurrentBranch ==
    /\ cl.pc = "getCurrentBranch"
    /\ \E out \in CurrentBranchOutputs, e \in OutputErrors :
          LET r == getCurrentBranch(out, e)
              k == [cl |-> [cl EXCEPT !.currentBranch = r.name],
                    log |-> Append(clLog, Ev("call", "getCurrentBranch", "", 0, r.err))]
              k2 == IF ~r.err.nil
                    THEN returns(k, NewError("failed to get current branch: "
                                                 \o r.err.msg))
                    ELSE IF r.name # cl.defaultBranch
                    THEN goto(k, "checkout") ELSE goto(k, "pull")
          IN  cl' = k2.cl /\ clLog' = k2.log
    /\ UNCHANGED <<rws, abandoned, notCleanupVars>>

\* a streamer.Run call of cleanup begins
PoolRun(step, title) ==
    /\ cl.pc = step
    /\ rws.pc = "none"
    /\ rws' = streamerRun(step, title)
    /\ clLog' = Append(clLog, Ev("run", step, title, itemIndex(cl), Nil))
    /\ UNCHANGED <<cl, abandoned, notCleanupVars>>

\* streamer.Run("Checking out default branch", ...) is called, line 469
PoolCheckout == PoolRun("checkout", "Checking out default branch")

\* streamer.Run("Pulling latest changes", ...) is called, line 475
PoolPull == PoolRun("pull", "Pulling latest changes")

\* streamer.Run("Pruning local branches", ...) is called, line 480
PoolPrune == PoolRun("prune", "Pruning local branches")

\* branches, err := getBranches(), lines 485-488, and the entry into the
\* loops; a panic of getBranches ends the program
PoolGetBranches ==
    /\ cl.pc = "getBranches"
    /\ \E out \in PoolListings, e \in OutputErrors :
          LET r == getBranches(out, e)
              k == [cl |-> [cl EXCEPT !.branches = r],
                    log |-> Append(clLog, Ev("call", "getBranches", "", 0, r.err))]
              k2 == IF r.panic THEN goto(k, "panicked")
                    ELSE IF ~r.err.nil
                    THEN returns(k, NewError("error getting deleted branches: "
                                                 \o r.err.msg))
                    ELSE worktreesLoop(k)
          IN  cl' = k2.cl /\ clLog' = k2.log
    /\ UNCHANGED <<rws, abandoned, notCleanupVars>>

\* one iteration of the worktree loop up to its streamer.Run, lines 491-501:
\* getWorktreePath; on its error the message and `continue`
PoolWorktree ==
    /\ cl.pc = "worktree"
    /\ rws.pc = "none"
    /\ \E out \in PoolWorktreeListings, e \in OutputErrors :
          LET b == cl.branches.WorktreeBranches[cl.wi]
              r == getWorktreePath(b, out, e)
              relativePath == ReplaceFirst(r.path, homeDir, "~")
              title == "Resetting worktree: " \o relativePath
              k == [cl |-> cl,
                    log |-> clLog \o
                            << Ev("output", "worktree list --porcelain", out, cl.wi, e),
                               Ev("call", "getWorktreePath", b, cl.wi, r.err) >>]
          IN  IF ~r.err.nil
              THEN LET k2 == worktreesLoop(
                                 [say(k, RedString(
                                      "Error finding worktree for branch " \o b
                                          \o ": " \o r.err.msg \o "\n"))
                                  EXCEPT !.cl.wi = @ + 1])
                   IN  cl' = k2.cl /\ clLog' = k2.log /\ rws' = rws
              ELSE /\ cl' = [cl EXCEPT !.pc = "reset", !.worktreePath = r.path,
                                       !.relativePath = relativePath]
                   /\ clLog' = Append(k.log, Ev("run", "reset", title, cl.wi, Nil))
                   /\ rws' = streamerRun("reset", title)
    /\ UNCHANGED <<abandoned, notCleanupVars>>

\* one iteration of the branch loop: its streamer.Run is called, line 508
PoolBranch ==
    /\ cl.pc = "branch"
    /\ rws.pc = "none"
    /\ LET title == "Deleting branch: " \o cl.branches.DeletedBranches[cl.bi]
       IN  /\ cl' = [cl EXCEPT !.pc = "delete"]
           /\ clLog' = Append(clLog, Ev("run", "delete", title, cl.bi, Nil))
           /\ rws' = streamerRun("delete", title)
    /\ UNCHANGED <<abandoned, notCleanupVars>>

\* streamer.Run("Rebasing worktree pool", ...) is called, line 515
PoolRebase ==
    /\ cl.pc = "pool"
    /\ rws.pc = "none"
    /\ cl' = [cl EXCEPT !.pc = "rebasePool"]
    /\ clLog' = Append(clLog, Ev("run", "rebasePool", "Rebasing worktree pool", 0, Nil))
    /\ rws' = streamerRun("rebasePool", "Rebasing worktree pool")
    /\ UNCHANGED <<abandoned, notCleanupVars>>

\* the history entries of the commands an operation ran
GitEvs(step, cmds, n) ==
    [i \in 1..Len(cmds) |-> Ev("git", step, Join(cmds[i].args, " "), n, cmds[i].err)]

\* the arguments checkoutBranch, pullBranch, fetchPrune and deleteBranch
\* pass to git(), lines 593-606 and 652-655; git() puts "-C", cwd before
\* arguments that hold no "-C"
stepCommand(c) ==
    CASE c.pc = "checkout" -> <<"--git-dir", c.gitDir, "checkout", c.defaultBranch>>
      [] c.pc = "pull" -> <<"--git-dir", c.gitDir, "pull", "origin", c.defaultBranch>>
      [] c.pc = "prune" -> <<"--git-dir", c.gitDir, "fetch", "-p">>
      [] c.pc = "delete" -> <<"branch", "-D", c.branches.DeletedBranches[c.bi]>>

\* err := operation(outputChan), streamer.go:107, for checkoutBranch,
\* pullBranch, fetchPrune and deleteBranch: RunCommand runs the command
PoolOperation ==
    /\ rws.pc = "select"
    /\ rws.worker = "operation"
    /\ rws.step \in {"checkout", "pull", "prune", "delete"}
    /\ \E r \in CombinedOutputs :
          /\ rws' = [rws EXCEPT !.worker = "send", !.opErr = RunCommand(r)]
          /\ clLog' = clLog \o GitEvs(rws.step, <<Ran(stepCommand(cl), RunCommand(r))>>,
                                      itemIndex(cl))
    /\ UNCHANGED <<cl, abandoned, notCleanupVars>>

\* err := operation(outputChan) for resetWorktree: the goroutine runs the
\* next command of resetWorktree and waits for it; after the last one the
\* operation has returned
PoolResetOperation ==
    /\ rws.pc = "select"
    /\ rws.worker = "operation"
    /\ rws.step = "reset"
    /\ \E r \in CombinedOutputs :
          LET s == resetWorktreeOnto(rws.op.pc, cl.defaultBranch,
                                     cl.worktreePath, r)
          IN  /\ rws' = IF s.pc = "return"
                        THEN [rws EXCEPT !.worker = "send", !.opErr = s.err,
                                         !.op = operationEntry("")]
                        ELSE [rws EXCEPT !.op.pc = s.pc]
              /\ clLog' = clLog \o GitEvs("reset", <<s.cmd>>, cl.wi)
    /\ UNCHANGED <<cl, abandoned, notCleanupVars>>

\* the operation of the pool, lines 516-529, one statement at a time: the
\* head of the loop with its getWorktreePath, or `return nil` after the last
\* branch; then the statements of rebaseWorktreePoolBranch, each command
\* waited for and each line sent on outputChan in its turn. An error of
\* getWorktreePath or of rebaseWorktreePoolBranch is returned at once
PoolRebaseOperation ==
    /\ rws.pc = "select"
    /\ rws.worker = "operation"
    /\ rws.step = "rebasePool"
    /\ IF rws.op.pc = "loop"
       THEN IF rws.pi > Len(cl.branches.WorktreePoolBranches)
            THEN /\ rws' = [rws EXCEPT !.worker = "send", !.opErr = Nil,
                                       !.op = operationEntry("")]
                 /\ UNCHANGED clLog
            ELSE \E out \in PoolWorktreeListings, e \in OutputErrors :
                    LET b == cl.branches.WorktreePoolBranches[rws.pi]
                        w == getWorktreePath(b, out, e)
                    IN  /\ rws' = IF ~w.err.nil
                                  THEN [rws EXCEPT !.worker = "send",
                                                   !.opErr = w.err,
                                                   !.op = operationEntry("")]
                                  ELSE [rws EXCEPT !.op.pc = "status",
                                                   !.op.worktreePath = w.path]
                        /\ clLog' = Append(clLog, Ev("call", "getWorktreePath", b,
                                                     rws.pi, w.err))
       ELSE \E r \in PoolCommandResults(rws.op.pc) :
               LET b == cl.branches.WorktreePoolBranches[rws.pi]
                   s == rebaseWorktreePoolBranch(rws.op, b, cl.defaultBranch, r)
               IN  /\ Len(rws.outputChan) + Len(s.lines) <= outputChanCap
                   /\ rws' = IF ~s.returned
                             THEN [rws EXCEPT !.outputChan = @ \o s.lines,
                                              !.op = s.op]
                             ELSE IF s.err.nil
                             THEN [rws EXCEPT !.outputChan = @ \o s.lines,
                                              !.op = operationEntry("rebasePool"),
                                              !.pi = @ + 1]
                             ELSE [rws EXCEPT !.outputChan = @ \o s.lines,
                                              !.op = operationEntry(""),
                                              !.worker = "send", !.opErr = s.err]
                   /\ clLog' = clLog \o GitEvs("rebasePool", s.cmds, rws.pi)
    /\ UNCHANGED <<cl, abandoned, notCleanupVars>>

\* errChan <- err, streamer.go:108
PoolSendErr ==
    /\ rws.worker = "send"
    /\ Len(rws.errChan) < errChanCap
    /\ rws' = [rws EXCEPT !.worker = "close", !.errChan = Append(@, rws.opErr)]
    /\ UNCHANGED <<cl, clLog, abandoned, notCleanupVars>>

\* close(outputChan), streamer.go:109, by the goroutine of the Run cleanup
\* is in or by the goroutine of a Run that has returned
PoolCloseOutput ==
    /\ \E h \in WorkerHandles :
          IF h = "current"
          THEN /\ rws.worker = "close"
               /\ rws' = [rws EXCEPT !.worker = "exit", !.closed = TRUE]
               /\ UNCHANGED abandoned
          ELSE /\ abandoned.close > 0
               /\ abandoned' = [abandoned EXCEPT !.close = @ - 1]
               /\ UNCHANGED rws
    /\ UNCHANGED <<cl, clLog, notCleanupVars>>

\* select, case output, ok := <-outputChan with ok: streamer.addOutput
PoolRecvOutput ==
    /\ rws.pc = "select"
    /\ rws.outputChan # <<>>
    /\ rws' = [rws EXCEPT !.outputChan = Tail(@)]
    /\ UNCHANGED <<cl, clLog, abandoned, notCleanupVars>>

\* handleCompletion(streamer, err) and `return` of Run, then cleanup up to
\* its next call; the goroutine is left where it is
PoolReturned(e) ==
    /\ rws' = [rws EXCEPT !.pc = "none", !.worker = "none", !.errChan = <<>>,
                          !.outputChan = <<>>]
    /\ abandoned' = IF rws.worker = "exit" THEN abandoned
                    ELSE [abandoned EXCEPT ![rws.worker] = @ + 1]
    /\ LET k == afterStreamerRun(
                    [cl |-> cl,
                     log |-> Append(clLog, Ev("returned", rws.step, rws.title,
                                              itemIndex(cl), e))])
       IN  cl' = k.cl /\ clLog' = k.log

\* select, case output, ok := <-outputChan with !ok: err := <-errChan
PoolRecvClosed ==
    /\ rws.pc = "select"
    /\ rws.closed
    /\ rws.outputChan = <<>>
    /\ rws.errChan # <<>>
    /\ PoolReturned(Head(rws.errChan))
    /\ UNCHANGED notCleanupVars

\* select, case err := <-errChan
PoolRecvErr ==
    /\ rws.pc = "select"
    /\ rws.errChan # <<>>
    /\ PoolReturned(Head(rws.errChan))
    /\ UNCHANGED notCleanupVars

----------------------------------------------------------------------------
(* Specifications.                                                         *)

\* one Run of the streamer
InitRun ==
    /\ StreamerInit /\ GitInit /\ ClsInit /\ ParseInit /\ DefInit
    /\ CleanupInit /\ CmdInit
NextRun ==
    \/ RunStart
    \/ OperationEmit
    \/ OperationReturn
    \/ SendErr
    \/ CloseOutput
    \/ RecvOutput
    \/ RecvClosed
    \/ RecvErr
SpecRun == InitRun /\ [][NextRun]_vars

\* one call of git
InitGit ==
    /\ StreamerInit /\ GitInit /\ ClsInit /\ ParseInit /\ DefInit
    /\ CleanupInit /\ CmdInit
NextGit ==
    \/ GitCall
    \/ GitAttempt
    \/ GitReturn
SpecGit == InitGit /\ [][NextGit]_vars

\* one call of shouldRetry, on any error of the bounded set
InitClassify ==
    /\ StreamerInit
    /\ GitInit
    /\ clsErr \in {Nil} \cup {NewError(m) : m \in Messages(MaxFrags)}
    /\ clsResult = FALSE
    /\ clsDone = FALSE
    /\ ParseInit /\ DefInit /\ CleanupInit /\ CmdInit
NextClassify == ShouldRetryCall
SpecClassify == InitClassify /\ [][NextClassify]_vars

\* one call of getDeletedBranches, on any listing of the bounded set
InitBranches ==
    /\ StreamerInit
    /\ GitInit
    /\ ClsInit
    /\ bvvRows \in RowSeqs(MaxBranches)
    /\ bvvOutput = Listing(bvvRows)
    /\ bvvErr \in {Nil, NewError("exit status 128")}
    /\ gdbRet = [branches |-> <<>>, worktreeBranches |-> <<>>, err |-> Nil]
    /\ gdbDone = FALSE
    /\ DefInit /\ CleanupInit /\ CmdInit
NextBranches == GetDeletedBranchesCall
SpecBranches == InitBranches /\ [][NextBranches]_vars

\* one call of getBranches on a listing of up to MaxBranches branches
InitGetBranches ==
    /\ StreamerInit
    /\ GitInit
    /\ ClsInit
    /\ bvvRows \in RowSeqsOf(BranchRows, MaxBranches)
    /\ bvvOutput = Listing(bvvRows)
    /\ bvvErr \in {Nil, NewError("exit status 128")}
    /\ gdbRet = NoBranches
    /\ gdbDone = FALSE
    /\ DefInit /\ CleanupInit /\ CmdInit
NextGetBranches == GetBranchesCall
SpecGetBranches == InitGetBranches /\ [][NextGetBranches]_vars

\* one call of getDefaultBranch
InitDefault ==
    /\ StreamerInit /\ GitInit /\ ClsInit /\ ParseInit /\ DefInit
    /\ CleanupInit /\ CmdInit
NextDefault ==
    \/ DefaultBranchCall
    \/ DefaultBranchMethod
    \/ DefaultBranchFail
SpecDefault == InitDefault /\ [][NextDefault]_vars

\* one run of cleanup
InitCleanup ==
    /\ StreamerInit /\ GitInit /\ ClsInit /\ ParseInit /\ DefInit
    /\ CleanupInit /\ CmdInit
NextCleanup ==
    \/ CleanupGetDefaultBranch
    \/ CleanupGetCurrentBranch
    \/ CleanupCheckout
    \/ CleanupPull
    \/ CleanupPrune
    \/ CleanupGetDeletedBranches
    \/ CleanupWorktree
    \/ CleanupBranch
    \/ WorkerOperation
    \/ WorkerSendErr
    \/ WorkerClose
    \/ RwsRecvClosed
    \/ RwsRecvErr
SpecCleanup == InitCleanup /\ [][NextCleanup]_vars

\* one run of the cleanup with the worktree pool
InitPool ==
    /\ StreamerInit /\ GitInit /\ ClsInit /\ ParseInit /\ DefInit
    /\ PoolCleanupInit /\ CmdInit
NextPool ==
    \/ PoolGetGitDir
    \/ PoolGetDefaultBranch
    \/ PoolGetCurrentBranch
    \/ PoolCheckout
    \/ PoolPull
    \/ PoolPrune
    \/ PoolGetBranches
    \/ PoolWorktree
    \/ PoolBranch
    \/ PoolRebase
    \/ PoolOperation
    \/ PoolResetOperation
    \/ PoolRebaseOperation
    \/ PoolSendErr
    \/ PoolCloseOutput
    \/ PoolRecvOutput
    \/ PoolRecvClosed
    \/ PoolRecvErr
SpecPool == InitPool /\ [][NextPool]_vars

\* one Run whose operation is RunCommandStreaming
InitStream ==
    /\ StreamerInit /\ GitInit /\ ClsInit /\ ParseInit /\ DefInit
    /\ CleanupInit /\ CmdInit
NextStream ==
    \/ RunStart
    \/ StreamBegin
    \/ ProcWrite
    \/ ProcExit
    \/ ReaderScan
    \/ ReaderSend
    \/ WaitReturn
    \/ SendErr
    \/ CloseOutput
    \/ RecvOutput
    \/ RecvClosed
    \/ RecvErr
SpecStream == InitStream /\ [][NextStream]_vars

\* one Run of an operation that overfills the channel, every goroutine
\* that can take a step taking one in the end: the goroutine of Run's
\* caller in its select loop, the worker goroutine in each of its statements
InitFlood ==
    /\ StreamerInit /\ GitInit /\ ClsInit /\ ParseInit /\ DefInit
    /\ CleanupInit /\ CmdInit
NextFlood ==
    \/ RunStart
    \/ OperationFlood
    \/ OperationFloodReturn
    \/ SendErr
    \/ CloseOutput
    \/ RecvOutput
    \/ RecvClosed
    \/ RecvErr
FairFlood ==
    /\ WF_vars(RunStart)
    /\ WF_vars(OperationFlood \/ OperationFloodReturn)
    /\ WF_vars(SendErr)
    /\ WF_vars(CloseOutput)
    /\ WF_vars(RecvOutput \/ RecvClosed \/ RecvErr)
SpecFlood == InitFlood /\ [][NextFlood]_vars /\ FairFlood

----------------------------------------------------------------------------
(* Properties of Run, checked under SpecRun.                               *)

NonEmpty(ls) == SelectSeq(ls, LAMBDA l : Len(l) > 0)

\* the final messages written to the terminal
Finals == SelectSeq(tty, LAMBDA w : w.op = "final")

\* the error block: what is written after the final message
ErrorBlock == AfterFinal(tty)

\* the text of an error-block row without its color codes and its indent
Body(text) == SubSeq(text, Len(BlackString("  ")) - Len("ESC[0m") + 1,
                     Len(text) - Len("ESC[0m"))

\* C1: when the operation returned a non-nil error, Run ends with the failure
\* glyph as its one final message (the success glyph nowhere), followed by
\* the lines of the error message in order, one row each, each row with its
\* own indent: the rows hold no newline and joined by newlines they are the
\* message.
C1_FailureRendered ==
    (mainPc = "done" /\ ~opErr.nil) =>
        /\ Len(Finals) = 1
        /\ Contains(Finals[1].text, FailGlyph \o streamer.spinner.Suffix)
        /\ ~Contains(Finals[1].text, PassGlyph)
        /\ streamer.spinner.active = FALSE
        /\ Len(ErrorBlock) >= 1
        /\ \A i \in 1..Len(ErrorBlock) :
              /\ ErrorBlock[i].op = "println"
              /\ ErrorBlock[i].text = BlackString("  " \o Body(ErrorBlock[i].text))
              /\ ~Contains(Body(ErrorBlock[i].text), "\n")
        /\ Join([i \in 1..Len(ErrorBlock) |-> Body(ErrorBlock[i].text)], "\n")
              = opErr.msg

\* a Run whose operation emitted a line and failed with a message of four
\* lines has returned
C1_Witness ==
    /\ mainPc = "done"
    /\ opErr = NewError("a\n\nb\n")
    /\ NonEmpty(consumed) # <<>>
    /\ Len(ErrorBlock) = 4

\* C2: when the operation returned nil, Run ends with the success glyph as
\* its one final message and writes nothing after it, on either select case.
C2_SuccessRendered ==
    (mainPc = "done" /\ opErr.nil) =>
        /\ Len(Finals) = 1
        /\ Finals[1].text = PassGlyph \o streamer.spinner.Suffix \o "\n"
        /\ ~Contains(Finals[1].text, FailGlyph)
        /\ streamer.spinner.active = FALSE
        /\ ErrorBlock = <<>>

\* a Run whose operation emitted a line and returned nil has returned through
\* the closed-channel case
C2_Witness ==
    /\ mainPc = "done"
    /\ opErr.nil
    /\ branch = "closed"
    /\ NonEmpty(consumed) # <<>>

\* C3: after the loop has consumed k >= 1 non-empty lines, the status view is
\* the last min(k, 2) of them, in arrival order.
C3_ViewIsLastLines ==
    LET got == NonEmpty(consumed)
        k == Len(got)
    IN  (mainPc = "select" /\ k >= 1) =>
            View = SubSeq(got, IF k > 2 THEN k - 1 ELSE 1, k)

\* C4: in every state the status view holds at most 2 output lines.
C4_ViewAtMostTwo == Len(View) <= 2

\* the loop has consumed more than two non-empty lines
C4_Witness ==
    /\ mainPc = "select"
    /\ Len(NonEmpty(consumed)) >= 3

\* C5: when Run has returned, every line the operation pushed into the sink
\* has been passed to addOutput.
C5_AllLinesConsumed ==
    mainPc = "done" => consumed = emitted

----------------------------------------------------------------------------
(* Properties of git, checked under SpecGit.                               *)

\* the attempts made so far, in order
Attempts == SelectSeq(hist, LAMBDA h : h.ev = "attempt")
\* the pauses taken so far, in order
Sleeps == SelectSeq(hist, LAMBDA h : h.ev = "sleep")

\* an attempt failed with an error of a transient signature
RetryableFailure(a) == ~a.err.nil /\ shouldRetry(a.err)

\* the attempts in which the command was run
Runs == SelectSeq(Attempts, LAMBDA h : h.ran)

\* C6: git never makes more than 3 attempts, and when git has returned and
\* every run of the command failed with a retryable error, the command was
\* run exactly 3 times.
C6_ThreeRunsOfARetryableFailure ==
    /\ Len(Attempts) <= 3
    /\ (/\ gitPc = "returned"
        /\ Len(Runs) >= 1
        /\ \A i \in 1..Len(Runs) : RetryableFailure(Runs[i]))
          => Len(Runs) = 3

\* C7: no attempt follows an attempt that succeeded or failed with an error
\* of no transient signature; a first attempt failing with such an error is
\* the only thing git does before it returns: one attempt, no sleep.
C7_StopsAtFirstFinalOutcome ==
    /\ \A i \in 1..(Len(Attempts) - 1) : RetryableFailure(Attempts[i])
    /\ (Len(Attempts) >= 1 /\ ~RetryableFailure(Attempts[1]))
          => /\ gitPc \in {"break", "returned"}
             /\ hist = <<Attempts[1]>>

\* git has returned after one attempt that failed with "exit status 1"
C7_Witness ==
    /\ gitPc = "returned"
    /\ Len(hist) = 1
    /\ hist[1].ev = "attempt"
    /\ hist[1].err = NewError("exit status 1")

\* C8: every pause lasts 2 seconds, directly follows a retryable failure and
\* is directly followed by the next attempt; nothing else separates two
\* attempts; so when git returns the pauses are one fewer than the attempts
\* and none follows the last attempt.
C8_PausesBetweenAttempts ==
    /\ \A i \in 1..Len(hist) :
          hist[i].ev = "sleep" =>
              /\ hist[i].secs = 2
              /\ i > 1
              /\ hist[i - 1].ev = "attempt"
              /\ RetryableFailure(hist[i - 1])
              /\ i < Len(hist) => hist[i + 1].ev = "attempt"
    /\ \A i \in 1..(Len(hist) - 1) :
          hist[i].ev = "attempt" => hist[i + 1].ev = "sleep"
    /\ gitPc = "returned" =>
          /\ hist[Len(hist)].ev = "attempt"
          /\ Len(Sleeps) = Len(Attempts) - 1

\* git has returned after a retryable failure, one pause and a last attempt
C8_Witness ==
    /\ gitPc = "returned"
    /\ Len(Attempts) = 2
    /\ Len(Sleeps) = 1
    /\ RetryableFailure(Attempts[1])
    /\ hist[2] = SleepEv(2)

\* C9: what git returns is the output and the error of the last attempt made.
C9_ReturnsLastAttempt ==
    gitPc = "returned" =>
        /\ Len(Attempts) >= 1
        /\ ret = <<Attempts[Len(Attempts)].out, Attempts[Len(Attempts)].err>>

\* git has returned after a retried failure and a last attempt whose error
\* differs from the first attempt's, and what it returned is the last one
C9_Witness ==
    /\ gitPc = "returned"
    /\ Len(Attempts) >= 2
    /\ Attempts[1].err # Attempts[Len(Attempts)].err
    /\ ret[2] = Attempts[Len(Attempts)].err
    /\ ret[2] # Attempts[1].err

----------------------------------------------------------------------------
(* Properties of shouldRetry, checked under SpecClassify.                  *)

\* the message has the shape "is at <X> but expected": the words "is at ",
\* then any text without a newline, then " but expected"
IsRefMismatch(m) ==
    \E i \in 1..(Len(m) - Len("is at ") + 1),
       j \in 1..(Len(m) - Len(" but expected") + 1) :
        /\ SubSeq(m, i, i + Len("is at ") - 1) = "is at "
        /\ j >= i + Len("is at ")
        /\ SubSeq(m, j, j + Len(" but expected") - 1) = " but expected"
        /\ ~Contains(SubSeq(m, i, j), "\n")

\* the signatures of the list other than the ref-state mismatch
OtherSignatures ==
    {retryablePatterns[i] : i \in 1..Len(retryablePatterns)}
        \ {"is at .* but expected"}

\* C10: a failure whose message has the ref-state mismatch shape and holds
\* none of the other signatures is classified as retryable.
C10_RefMismatchRetryable ==
    (/\ clsDone
     /\ ~clsErr.nil
     /\ IsRefMismatch(clsErr.msg)
     /\ \A p \in OtherSignatures : ~Contains(clsErr.msg, p))
        => clsResult = TRUE

----------------------------------------------------------------------------
(* Properties of getDeletedBranches, checked under SpecBranches.           *)

Range(f) == {f[i] : i \in DOMAIN f}

HasSuffix(s, suffix) ==
    Len(s) >= Len(suffix) /\ SubSeq(s, Len(s) - Len(suffix) + 1, Len(s)) = suffix

\* the upstream of the branch is marked gone: [origin/<name>: gone]
TrackingGone(r) ==
    HasPrefix(r.tracking, "[origin/") /\ HasSuffix(r.tracking, ": gone]")

\* the first field of the line of a branch: the name, or the "*" that
\* marks the current branch
FirstField(r) == IF r.prefix = "* " THEN "*" ELSE r.name

\* the parse of a listing that git produced without error has returned
Parsed == gdbDone /\ bvvErr.nil

\* C12: a line without '+' whose upstream is gone is recorded in the
\* deleted-branch list under its first field and adds nothing to the
\* worktree-branch list: that list is no longer than the number of '+'
\* lines, and a listing of such lines alone gives their first fields in
\* order and no worktree branch.
C12_PlainLineDeletedOnly ==
    Parsed =>
        /\ \A k \in 1..Len(bvvRows) :
              (bvvRows[k].prefix # "+ " /\ TrackingGone(bvvRows[k])) =>
                  FirstField(bvvRows[k]) \in Range(gdbRet.branches)
        /\ Len(gdbRet.worktreeBranches)
              <= Cardinality({k \in 1..Len(bvvRows) : bvvRows[k].prefix = "+ "})
        /\ (\A k \in 1..Len(bvvRows) :
                bvvRows[k].prefix # "+ " /\ TrackingGone(bvvRows[k]))
              => /\ gdbRet.branches = [k \in 1..Len(bvvRows) |-> FirstField(bvvRows[k])]
                 /\ gdbRet.worktreeBranches = <<>>

\* the example line of feature-x has been parsed
C12_Witness ==
    /\ Parsed
    /\ bvvOutput = "  feature-x  abc123 [origin/feature-x: gone] msg\n"
    /\ gdbRet.branches = <<"feature-x">>
    /\ gdbRet.worktreeBranches = <<>>

\* C13: lines whose upstream is not marked gone are added to neither list.
C13_NoGoneMarkerNotListed ==
    (Parsed /\ \A k \in 1..Len(bvvRows) : ~TrackingGone(bvvRows[k])) =>
        /\ gdbRet.branches = <<>>
        /\ gdbRet.worktreeBranches = <<>>

----------------------------------------------------------------------------
(* Properties of getDefaultBranch, checked under SpecDefault.              *)

\* the trimmed outputs that the removal of the prefixes "refs/heads/",
\* "refs/remotes/", "origin/" (each once, in this order) leaves empty
EmptyNames ==
    {h \o r \o o : h \in {"", "refs/heads/"}, r \in {"", "refs/remotes/"},
                   o \in {"", "origin/"}}

\* the method failed, or its output holds no branch name
Unusable(c) == ~c.err.nil \/ TrimSpace(c.out) \in EmptyNames

\* C14: a method that fails or yields an empty name is skipped: every
\* method run before the last was unusable, and after an unusable method
\* the function returns only when it was the third; when all three are
\* unusable it returns the error "failed to get default branch" and the
\* empty name, and it returns that error in no other case.
C14_FallThroughThenError ==
    /\ \A i \in 1..(Len(dbCalls) - 1) : Unusable(dbCalls[i])
    /\ \A i \in 1..Len(dbCalls) : dbCalls[i].method = methods[i]
    /\ dbPc = "returned" =>
          /\ Len(dbCalls) >= 1
          /\ Unusable(dbCalls[Len(dbCalls)]) =>
                /\ Len(dbCalls) = Len(methods)
                /\ dbRet = [name |-> "",
                            err |-> NewError("failed to get default branch")]
          /\ ~Unusable(dbCalls[Len(dbCalls)]) =>
                /\ dbRet.err.nil
                /\ dbRet.name # ""

\* getDefaultBranch has returned its error after a failed method, a method
\* whose output was only a prefix, and a third unusable method
C14_Witness ==
    /\ dbPc = "returned"
    /\ Len(dbCalls) = 3
    /\ ~dbCalls[1].err.nil
    /\ dbCalls[2] = CallEv(methods[2], "refs/remotes/origin/\n", Nil)
    /\ dbRet.err = NewError("failed to get default branch")

\* C15: when method 1 fails and method 2 gives "origin/HEAD", the name
\* returned is not "HEAD".
C15_HeadNotReturned ==
    (/\ dbPc = "returned"
     /\ Len(dbCalls) >= 2
     /\ ~dbCalls[1].err.nil
     /\ dbCalls[2].err.nil
     /\ TrimSpace(dbCalls[2].out) = "origin/HEAD")
        => dbRet.name # "HEAD"

----------------------------------------------------------------------------
(* The states of an Operation, checked under SpecRun.                      *)

\* the state of the Operation as the terminal shows it: Idle before the
\* spinner is started, Running while it spins, Succeeded or Failed once a
\* final message carries the glyph
Phase ==
    IF Finals # <<>>
    THEN IF Contains(Finals[Len(Finals)].text, FailGlyph) THEN "Failed"
         ELSE "Succeeded"
    ELSE IF streamer.spinner.active THEN "Running"
    ELSE "Idle"

PhaseSteps ==
    { <<"Idle", "Idle">>, <<"Idle", "Running">>, <<"Running", "Running">>,
      <<"Running", "Succeeded">>, <<"Running", "Failed">>,
      <<"Succeeded", "Succeeded">>, <<"Failed", "Failed">> }

\* one step of a Run, seen as a step of the Operation
PhaseStep ==
    /\ <<Phase, Phase'>> \in PhaseSteps
    /\ Len(Finals') <= 1
    /\ Phase \in {"Succeeded", "Failed"} => tty' = tty
    /\ Phase' \in {"Succeeded", "Failed"} =>
          /\ workerPc' \in {"close", "exit"}
          /\ (Phase' = "Failed") = ~opErr'.nil
    /\ mainPc' = "idle" => Phase' = "Idle"
    /\ mainPc' = "select" => Phase' = "Running"
    /\ mainPc' = "done" => Phase' \in {"Succeeded", "Failed"} /\ Len(Finals') = 1

\* C19: every step of a Run takes the Operation along Idle -> Running ->
\* Succeeded or Idle -> Running -> Failed and no other way: it is Idle until
\* Run is called, Running while Run is in its loop, and Succeeded or Failed
\* when Run has returned; the final message is written once, nothing is
\* written to the terminal after it, and it is written only after the
\* operation function has returned, Failed exactly when it returned an error.
C19_PhaseSequence == [][PhaseStep]_vars

\* a Run has returned with the Operation Succeeded while its goroutine has
\* not yet closed the output channel
C19_Witness ==
    /\ mainPc = "done"
    /\ Phase = "Succeeded"
    /\ workerPc = "close"
    /\ NonEmpty(consumed) # <<>>

----------------------------------------------------------------------------
(* Properties of cleanup: C16 under SpecPool, the cleanup with the         *)
(* worktree pool; the others under SpecCleanup.                            *)

\* the entries of the history that satisfy P
Entries(P(_)) == {i \in DOMAIN clLog : P(clLog[i])}

\* a setup step that failed: one of the three functions called before the
\* loops (the listing is getBranches in the cleanup with the worktree pool,
\* getDeletedBranches before it), or the Run of checkout, pull or prune
SetupFailure(e) ==
    /\ ~e.err.nil
    /\ \/ e.ev = "call" /\ e.what \in {"getDefaultBranch", "getCurrentBranch",
                                       "getBranches", "getDeletedBranches"}
       \/ e.ev = "returned" /\ e.what \in {"checkout", "pull", "prune"}

\* C16: when a setup step of cleanup fails (default branch, current branch,
\* checkout, pull, fetch-prune, listing the branches), cleanup has returned
\* a non-nil error and nothing comes after the failure in the history of
\* the run: no later step, no worktree reset, no branch deletion.
C16_SetupFailureIsFatal ==
    \A i \in DOMAIN clLog :
        SetupFailure(clLog[i]) =>
            /\ i = Len(clLog)
            /\ cl.pc = "returned"
            /\ ~cl.ret.nil
            /\ rws.pc = "none"

\* the reset of a worktree or the deletion of a branch failed
ItemFailure(e) ==
    e.ev = "returned" /\ e.what \in {"reset", "delete"} /\ ~e.err.nil

\* the loop body ran for item n of the worktree list: getWorktreePath was
\* called for it
WorktreeAttempts(n) ==
    Entries(LAMBDA e : e.ev = "call" /\ e.what = "getWorktreePath" /\ e.n = n
                       /\ e.arg = cl.deletedWorktreeBranches[n])
\* the deletion of item n of the branch list was started
BranchAttempts(n) ==
    Entries(LAMBDA e : e.ev = "run" /\ e.what = "delete" /\ e.n = n
                       /\ e.arg = "Deleting branch: " \o cl.deletedBranches[n])

\* C17: once the reset of a worktree or the deletion of a branch has
\* failed, no item of either list is attempted twice, and when cleanup has
\* returned it returned nil and every item of both lists was attempted
\* exactly once.
C17_ItemFailureDoesNotAbort ==
    (Entries(ItemFailure) # {}) =>
        /\ \A n \in DOMAIN cl.deletedWorktreeBranches :
               Cardinality(WorktreeAttempts(n)) <= 1
        /\ \A n \in DOMAIN cl.deletedBranches :
               Cardinality(BranchAttempts(n)) <= 1
        /\ cl.pc = "returned" =>
               /\ cl.ret = Nil
               /\ \A n \in DOMAIN cl.deletedWorktreeBranches :
                      Cardinality(WorktreeAttempts(n)) = 1
               /\ \A n \in DOMAIN cl.deletedBranches :
                      Cardinality(BranchAttempts(n)) = 1

\* a finished run in which the reset of the first worktree failed and items
\* of both lists were attempted after it
C17_Witness ==
    /\ cl.pc = "returned"
    /\ \E i \in DOMAIN clLog :
          /\ ItemFailure(clLog[i])
          /\ clLog[i].what = "reset"
          /\ clLog[i].n = 1
          /\ \E j, k \in DOMAIN clLog :
                /\ i < j /\ i < k
                /\ clLog[j].ev = "run" /\ clLog[j].what = "reset"
                /\ clLog[k].ev = "run" /\ clLog[k].what = "delete"

\* the operations whose function has been entered and has not returned
liveOperations ==
    (IF rws.worker = "operation" THEN 1 ELSE 0) + abandoned.operation

\* C18: at most one operation is live and at most one spinner is drawn;
\* while cleanup is between two runWithSpinner calls none is; and every
\* runWithSpinner that returned did so after its operation had run to its
\* end (the git command of the same step comes before it in the history).
C18_OneLiveOperation ==
    /\ liveOperations <= 1
    /\ rws.spinners <= 1
    /\ rws.pc = "none" => liveOperations = 0 /\ rws.spinners = 0
    /\ \A i \in DOMAIN clLog :
          clLog[i].ev = "returned" =>
              /\ i >= 3
              /\ clLog[i - 1].ev = "git"
              /\ clLog[i - 1].what = clLog[i].what
              /\ clLog[i - 1].n = clLog[i].n
              /\ clLog[i - 1].err = clLog[i].err
              /\ clLog[i - 2].ev = "run"

\* an operation is live while the goroutine of an earlier call has not yet
\* closed its channel
C18_Witness ==
    /\ rws.pc = "select"
    /\ rws.worker = "operation"
    /\ abandoned.close > 0
    /\ Entries(LAMBDA e : e.ev = "returned") # {}

----------------------------------------------------------------------------
(* Properties of RunCommandStreaming, checked under SpecStream.            *)

\* how often line l occurs in ls
Occurrences(ls, l) == Len(SelectSeq(ls, LAMBDA x : x = l))

\* C20: when Run has returned (the operation is reported finished), every
\* non-empty line the subprocess wrote to stdout or stderr has been taken
\* from the output channel and passed to the streamer, as often as it was
\* written, whatever the order of the two streams.
C20_EveryLineConsumed ==
    mainPc = "done" =>
        \A l \in Lines \ {""} :
            Occurrences(consumed, l)
                = Occurrences(written["stdout"], l) + Occurrences(written["stderr"], l)


\* C21: when RunCommandStreaming has returned the error of StdoutPipe, of
\* StderrPipe or of Start (the subprocess was never started), no pipe end
\* is open in the parent.
C21_EarlyFailureReleasesPipes ==
    (proc.pc = "unstarted" /\ workerPc \in {"send", "close", "exit"}) => fds = {}

----------------------------------------------------------------------------
(* Further properties of cleanup, checked under SpecCleanup.               *)

\* every call and every command of the run succeeded
AllSucceeded == \A i \in DOMAIN clLog : clLog[i].err.nil

\* C22: when a run of cleanup in which every command succeeded has
\* returned, for every branch of the worktree list a `git worktree remove`
\* was run for its item, and every `git branch -D` of that branch comes
\* after that removal in the history.
C22_WorktreeRemovedThenBranchDeleted ==
    (cl.pc = "returned" /\ AllSucceeded) =>
        \A n \in DOMAIN cl.deletedWorktreeBranches :
            \E i \in DOMAIN clLog :
                /\ clLog[i].ev = "git"
                /\ clLog[i].n = n
                /\ HasPrefix(clLog[i].arg, "worktree remove ")
                /\ \A j \in DOMAIN clLog :
                      (clLog[j].ev = "git"
                       /\ clLog[j].arg = Join(deleteBranch(cl.deletedWorktreeBranches[n]), " "))
                          => j > i

----------------------------------------------------------------------------
(* Further properties of RunCommandStreaming, checked under SpecStream.    *)

\* C23: no reader goroutine sends on the output channel once the goroutine
\* of Run has closed it: the program never panics with a send on a closed
\* channel.
C23_NoSendOnClosedChannel == mainPc # "crashed"

----------------------------------------------------------------------------
(* Termination of Run, checked under SpecFlood.                            *)

\* C24: a Run whose operation pushes more lines than the channel holds and
\* then returns does return: from its select loop it reaches its end, the
\* producer blocked on the full channel and the consumer never wait for
\* each other for ever; and when the worker is at its completion send,
\* errChan has room, so the send does not block.
C24_RunTerminates ==
    /\ [](workerPc = "send" => Len(errChan) < errChanCap)
    /\ (mainPc = "select") ~> (mainPc = "done")

\* a Run has returned after its operation pushed all its lines, more than
\* the channel holds, and the channel was full when it returned
C24_Witness ==
    /\ mainPc = "done"
    /\ Len(emitted) = LongScript
    /\ Len(emitted) > outputChanCap
    /\ Len(outputChan) = outputChanCap

----------------------------------------------------------------------------
(* Further properties of the streamer, checked under SpecRun.              *)

\* C25: every cursor-up/clear-line step removes an output row the streamer
\* drew before: replaying the writes to the terminal, no erase comes when
\* no output row is left, so neither the spinner line nor earlier content
\* is erased.
C25_ErasesOnlyDrawnRows ==
    Replay(tty, [rows |-> <<>>, over |-> 0]).over = 0


\* C26: once the final status line is written, for success and for failure,
\* no output row is left on the terminal above it and no erase is written
\* after it: the transient rows were erased before; and when Run has
\* returned the line buffer is empty.
C26_ClearedBeforeFinal ==
    /\ Finals # <<>> =>
          /\ View = <<>>
          /\ \A i \in DOMAIN ErrorBlock : ErrorBlock[i].op # "erase"
    /\ mainPc = "done" => streamer.lines = <<>> /\ Finals # <<>>

\* a Run that took two non-empty lines has returned with the operation's
\* success
C26_Witness ==
    /\ mainPc = "done"
    /\ opErr.nil
    /\ Len(NonEmpty(consumed)) >= 2
    /\ Len(Finals) = 1

----------------------------------------------------------------------------
(* Further properties of getDefaultBranch, checked under SpecDefault.      *)

\* the git subcommands of the three methods, in the order of their rank
MethodOrder == <<"symbolic-ref", "rev-parse", "config">>

\* C27: the methods are run in the order symbolic-ref, rev-parse, config,
\* each at most once; the first method that succeeds with a non-empty
\* stripped name is the last one run, and the function has returned that
\* name: no method of lower rank gave a usable name and none is run after.
C27_FirstUsableMethodWins ==
    /\ Len(dbCalls) <= Len(MethodOrder)
    /\ \A i \in DOMAIN dbCalls : dbCalls[i].method[1] = MethodOrder[i]
    /\ \A i \in DOMAIN dbCalls :
          ~Unusable(dbCalls[i]) =>
              /\ i = Len(dbCalls)
              /\ dbPc = "returned"
              /\ dbRet = [name |-> cleanResult(dbCalls[i].out), err |-> Nil]
    /\ (dbPc = "returned" /\ dbRet.err.nil) =>
          /\ dbCalls # <<>>
          /\ ~Unusable(dbCalls[Len(dbCalls)])

\* getDefaultBranch has returned the name the second method gave, after a
\* first method that succeeded with an output holding no name
C27_Witness ==
    /\ dbPc = "returned"
    /\ Len(dbCalls) = 2
    /\ dbCalls[1].err.nil
    /\ dbCalls[2].out = "origin/main\n"
    /\ dbRet = [name |-> "main", err |-> Nil]


----------------------------------------------------------------------------
(* The order of the steps of cleanup, checked under SpecPool.              *)

\* the Run of step `what` was called at entry i of the history
Started(i, what) == clLog[i].ev = "run" /\ clLog[i].what = what
\* the list of worktree branches cleanup loops over
WorktreeItems ==
    IF "branches" \in DOMAIN cl THEN cl.branches.WorktreeBranches
    ELSE cl.deletedWorktreeBranches
\* the Run of step `what` returned nil before entry i
SucceededBefore(i, what) ==
    \E j \in 1..(i - 1) :
        clLog[j].ev = "returned" /\ clLog[j].what = what /\ clLog[j].err.nil

\* C28: the steps of cleanup come in one order. The checkout is started
\* only when the current branch differs from the default branch, and then
\* the pull is started only after the checkout succeeded; without that
\* difference the pull is started with no checkout; fetch-prune is started
\* only after the pull succeeded; and when a branch deletion is started,
\* every item of the worktree list has been attempted before it.
C28_StepsInOrder ==
    \A i \in DOMAIN clLog :
        /\ Started(i, "checkout") => cl.currentBranch # cl.defaultBranch
        /\ Started(i, "pull") =>
              IF cl.currentBranch # cl.defaultBranch
              THEN SucceededBefore(i, "checkout")
              ELSE \A j \in DOMAIN clLog : ~Started(j, "checkout")
        /\ Started(i, "prune") => SucceededBefore(i, "pull")
        /\ Started(i, "reset") => SucceededBefore(i, "prune")
        /\ Started(i, "delete") =>
              /\ SucceededBefore(i, "prune")
              /\ \A n \in DOMAIN WorktreeItems :
                    \E j \in 1..(i - 1) :
                        /\ clLog[j].ev = "call"
                        /\ clLog[j].what = "getWorktreePath"
                        /\ clLog[j].n = n
              /\ \A j \in DOMAIN clLog : Started(j, "reset") => j < i

----------------------------------------------------------------------------
(* getWorktreePath inside cleanup, checked under SpecCleanup.              *)

\* the branch the worktree of path is checked out on, per the list out:
\* the entries of the list, each a "worktree" line followed by its "branch"
\* line
RECURSIVE BranchOf(_, _, _)
BranchOf(lines, path, current) ==
    IF lines = <<>> THEN ""
    ELSE LET line == Head(lines)
         IN  IF HasPrefix(line, "worktree ")
             THEN BranchOf(Tail(lines), path, TrimPrefix(line, "worktree "))
             ELSE IF HasPrefix(line, "branch refs/heads/") /\ current = path
                  THEN TrimPrefix(line, "branch refs/heads/")
                  ELSE BranchOf(Tail(lines), path, current)

\* no worktree of the list out is checked out on branch b
NoWorktreeOn(out, b) ==
    \A i \in DOMAIN ScanLines(out) : ScanLines(out)[i] # "branch refs/heads/" \o b

\* C29: when the worktree list was read and no worktree of it is checked
\* out on the branch of the item, getWorktreePath has returned the error
\* "worktree not found for branch <X>"; cleanup has printed it, never
\* starts a reset for that item, asks for the list of that item once, and
\* goes on.
C29_NotFoundIsReportedAndSkipped ==
    \A i \in DOMAIN clLog :
        (/\ clLog[i].ev = "output"
         /\ clLog[i].err.nil
         /\ NoWorktreeOn(clLog[i].arg, cl.deletedWorktreeBranches[clLog[i].n]))
        => LET n == clLog[i].n
               b == cl.deletedWorktreeBranches[n]
               e == NewError("worktree not found for branch " \o b)
           IN  /\ Len(clLog) >= i + 2
               /\ clLog[i + 1] = Ev("call", "getWorktreePath", b, n, e)
               /\ clLog[i + 2].ev = "print"
               /\ clLog[i + 2].arg =
                      RedString("Error finding worktree for branch " \o b
                                    \o ": " \o e.msg \o "\n")
               /\ \A j \in DOMAIN clLog :
                      /\ ~(clLog[j].ev = "run" /\ clLog[j].what = "reset"
                           /\ clLog[j].n = n)
                      /\ (clLog[j].ev = "output" /\ clLog[j].n = n) => j = i
               /\ cl.pc \in {"worktree", "branch", "delete", "returned"}
               /\ cl.pc = "worktree" => cl.wi > n


\* C30: when cleanup starts the reset of a worktree, the path that
\* getWorktreePath returned for the branch of the item is the path of a
\* worktree that the list it read shows checked out on exactly that branch.
C30_PathIsOfExactBranch ==
    cl.pc = "reset" =>
        \E i \in DOMAIN clLog :
            /\ clLog[i].ev = "output"
            /\ clLog[i].n = cl.wi
            /\ BranchOf(ScanLines(clLog[i].arg), cl.worktreePath, "")
                   = cl.deletedWorktreeBranches[cl.wi]

----------------------------------------------------------------------------
(* Properties of getBranches, checked under SpecGetBranches.               *)

\* getBranches has returned the parse of a listing git gave without error
ParsedBranches == gdbDone /\ bvvErr.nil /\ ~gdbRet.panic

\* the rows of the listing that are '+' lines with the upstream gone
GoneWorktreeRows ==
    {k \in 1..Len(bvvRows) : bvvRows[k].prefix = "+ " /\ TrackingGone(bvvRows[k])}

\* C11: a '+' line whose upstream is gone is recorded under the name of its
\* branch in the deleted-branch list and in the worktree-branch list.
C11_WorktreeLineInBothLists ==
    ParsedBranches =>
        \A k \in GoneWorktreeRows :
            /\ bvvRows[k].name \in Range(gdbRet.DeletedBranches)
            /\ bvvRows[k].name \in Range(gdbRet.WorktreeBranches)

\* the example line of feature-y has been parsed
C11_Witness ==
    /\ ParsedBranches
    /\ bvvOutput = "+ feature-y  def456 [origin/feature-y: gone] msg\n"
    /\ gdbRet.DeletedBranches = <<"feature-y">>
    /\ gdbRet.WorktreeBranches = <<"feature-y">>

====
